----------------------------- MODULE StunProofs -----------------------------
(***************************************************************************)
(* The keepalive session never stalls and uses every answer once, for      *)
(* every retransmission schedule, every set of transaction ids and any     *)
(* number of faults; and while requests can be sent the application knows  *)
(* the current mapping.                                                    *)
(***************************************************************************)
EXTENDS Stun, TLAPS

(* The invariant: the types, and the two properties themselves.            *)
SInv == TypeOK /\ AnsweredOnce /\ NeverStalls

Budgets == {"err", "odd", "loss", "move", "enable"}
Trans == [tid : Tids \cup {0}, txc : 0..Rc, ival : Nat, due : Nat, age : Nat]

(* Spending leaves a budget.                                               *)
LEMMA SpendType ==
  ASSUME budget \in [Budgets -> Nat], NEW b \in Budgets, Spend(b)
  PROVE  budget' \in [Budgets -> Nat]
BY DEF Spend, Budgets

(* A session starts with nothing pending, nothing used, and disabled.      *)
LEMMA StunInit == Init => SInv
<1> SUFFICES ASSUME Init PROVE SInv
  OBVIOUS
<1>1. budget \in [Budgets -> Nat]
  BY StunAssumption DEF Init, Budgets
<1>2. ct \in Trans
  BY StunAssumption DEF Init, NoCt, Trans
<1>3. TypeOK
  BY <1>1, <1>2, StunAssumption DEF Init, TypeOK, Off, Budgets, Trans
<1> QED BY <1>3, StunAssumption
  DEF Init, SInv, AnsweredOnce, NeverStalls, Pending, NoCt

(* Completing the pending transaction keeps the invariant: the handler     *)
(* has not run for it, and it restarts the timer.                          *)
LEMMA Completes ==
  ASSUME SInv, Pending, NEW err \in BOOLEAN, NEW scode \in BOOLEAN,
         NEW m \in Maps \cup {None}, completed(ct.tid, err, scode, m),
         UNCHANGED <<interval, alive, net, map>>, budget' \in [Budgets -> Nat]
  PROVE  SInv'
<1>1. ct.tid \in Tids /\ used[ct.tid] = 0
  BY DEF SInv, TypeOK, AnsweredOnce, Pending
<1>2. ct' \in Trans /\ ~Pending'
  BY StunAssumption DEF completed, NoCt, Trans, Pending
<1>3. used' \in [Tids -> Nat] /\ \A t \in Tids : used'[t] <= 1
  BY <1>1 DEF completed, SInv, TypeOK, AnsweredOnce
<1>4. tmr' = (IF interval > 0 THEN Interval ELSE tmr)
  BY DEF completed, stun_response_handler, Restart
<1>5. tmr' \in -1..Interval
  BY <1>4, StunAssumption DEF SInv, TypeOK
<1>6. curmap' \in Maps \cup {None} /\ told' \in Maps \cup {None, "error"}
  BY DEF completed, stun_response_handler, SInv, TypeOK
<1>7. TypeOK'
  BY <1>2, <1>3, <1>5, <1>6 DEF SInv, TypeOK, Budgets, Trans
<1>8. NeverStalls'
  BY <1>4, StunAssumption DEF NeverStalls, Off, SInv, TypeOK
<1> QED BY <1>2, <1>3, <1>7, <1>8 DEF SInv, AnsweredOnce

(* The refresh timer sends a request with a fresh id, or fails and is      *)
(* started again.                                                          *)
LEMMA TimeoutStep == ASSUME SInv, timeout PROVE SInv'
<1>1. CASE \E t \in Tids \ {m.tid : m \in net} :
             /\ ct' = [tid |-> t, txc |-> 1, ival |-> Rto, due |-> Rto, age |-> 0]
             /\ used' = [used EXCEPT ![t] = 0]
             /\ net' = net \cup {Request(t)}
             /\ tmr' = Off
             /\ UNCHANGED <<told, budget>>
  <2> PICK t \in Tids : /\ ct' = [tid |-> t, txc |-> 1, ival |-> Rto, due |-> Rto, age |-> 0]
                        /\ used' = [used EXCEPT ![t] = 0]
                        /\ net' = net \cup {Request(t)}
                        /\ tmr' = Off
                        /\ UNCHANGED <<told, budget>>
    BY Zenon, <1>1
  <2>1. ct' \in Trans /\ Pending' /\ ct'.tid = t
    BY StunAssumption DEF Trans, Pending
  <2>2. /\ used' \in [Tids -> Nat] /\ used'[t] = 0
        /\ \A u \in Tids : used'[u] <= 1
    BY DEF SInv, TypeOK, AnsweredOnce
  <2>3. net' \subseteq [class : {"request", "success", "error"}, tid : Tids,
                        map : Maps \cup {None}]
    BY DEF SInv, TypeOK, Request
  <2>4. TypeOK'
    BY <2>1, <2>2, <2>3, StunAssumption DEF timeout, SInv, TypeOK, Off, Trans
  <2> QED BY <2>1, <2>2, <2>4 DEF SInv, AnsweredOnce, NeverStalls
<1>2. CASE /\ Spend("odd") /\ ct' = NoCt
           /\ tmr' = IF interval > 0 THEN Interval ELSE Off
           /\ told' = "error" /\ UNCHANGED <<net, used>>
  <2>1. budget' \in [Budgets -> Nat]
    BY <1>2, SpendType DEF SInv, TypeOK, Budgets
  <2>2. ct' \in Trans /\ ~Pending'
    BY <1>2, StunAssumption DEF NoCt, Trans, Pending
  <2>3. TypeOK'
    BY <1>2, <2>1, <2>2, StunAssumption DEF timeout, SInv, TypeOK, Off, Trans, Budgets
  <2> QED BY <1>2, <2>2, <2>3, StunAssumption
        DEF timeout, SInv, AnsweredOnce, NeverStalls, Off, TypeOK
<1> QED BY <1>1, <1>2 DEF timeout

(* Enabling, freeing and the passing of time keep the invariant.           *)
LEMMA QuietStep ==
  ASSUME SInv,
         \/ \E i \in {0, Interval} : stun_keepalive_enable(i)
         \/ keepalive_destructor \/ Tick
  PROVE  SInv'
<1>1. ASSUME NEW i \in {0, Interval}, stun_keepalive_enable(i) PROVE SInv'
  <2>1. budget' \in [Budgets -> Nat]
    BY <1>1, SpendType DEF stun_keepalive_enable, SInv, TypeOK, Budgets
  <2>2. TypeOK'
    BY <1>1, <2>1, StunAssumption DEF stun_keepalive_enable, SInv, TypeOK, Off, Budgets
  <2> QED BY <1>1, <2>2, StunAssumption
        DEF stun_keepalive_enable, SInv, AnsweredOnce, NeverStalls, Pending, Off
<1>2. CASE keepalive_destructor
  <2>1. ct' \in Trans /\ ~Pending'
    BY <1>2, StunAssumption DEF keepalive_destructor, NoCt, Trans, Pending
  <2>2. TypeOK'
    <3>1. alive' \in BOOLEAN
      BY Zenon, <1>2 DEF keepalive_destructor
    <3>2. tmr' \in -1..Interval
      BY <1>2, StunAssumption DEF keepalive_destructor, Off
    <3> QED BY <1>2, <2>1, <3>1, <3>2 DEF keepalive_destructor, SInv, TypeOK, Trans
  <2> QED BY <1>2, <2>1, <2>2 DEF keepalive_destructor, SInv, AnsweredOnce, NeverStalls
<1>3. CASE Tick
  <2>1. ct' \in Trans /\ ct'.tid = ct.tid
    <3>1. CASE Pending
      <4>1. ct \in Trans /\ ct.due # 0
        BY <1>3, <3>1 DEF Tick, Due, SInv, TypeOK, Trans
      <4>2. ct.due - 1 \in Nat /\ ct.age + 1 \in Nat
        BY <4>1 DEF Trans
      <4>3. ct' = [ct EXCEPT !.due = ct.due - 1, !.age = ct.age + 1]
        BY <1>3, <3>1 DEF Tick
      <4> QED BY Zenon, <4>1, <4>2, <4>3 DEF Trans
    <3>2. CASE ~Pending
      <4>1. ct' = NoCt /\ ct.tid = 0
        BY <1>3, <3>2 DEF Tick, Pending
      <4> QED BY <4>1, StunAssumption DEF NoCt, Trans
    <3> QED BY <3>1, <3>2
  <2>2. tmr' \in -1..Interval /\ (tmr # Off => tmr' # Off)
    BY <1>3, StunAssumption DEF Tick, Due, Off, SInv, TypeOK
  <2>3. TypeOK'
    BY <1>3, <2>1, <2>2 DEF Tick, SInv, TypeOK, Trans
  <2> QED BY <1>3, <2>1, <2>2, <2>3
        DEF Tick, SInv, AnsweredOnce, NeverStalls, Pending
<1> QED BY <1>1, <1>2, <1>3

(* What the network and the server do leaves the session alone.            *)
LEMMA NetworkStep ==
  ASSUME SInv,
         \/ \E m \in net : Serve(m) \/ Refuse(m) \/ ServeBare(m) \/ Lose(m)
         \/ Move \/ Expire
  PROVE  SInv'
<1>1. UNCHANGED sess
  BY DEF Serve, Refuse, ServeBare, Answer, Lose, Move, Expire
<1>2. budget' \in [Budgets -> Nat]
  BY SpendType
    DEF Serve, Refuse, ServeBare, Answer, Lose, Move, Expire, SInv, TypeOK, Budgets
<1>3. map' \in Maps
  BY DEF Serve, Refuse, ServeBare, Answer, Lose, Move, Expire, SInv, TypeOK
<1>4. net' \subseteq [class : {"request", "success", "error"}, tid : Tids,
                      map : Maps \cup {None}]
  BY DEF Serve, Refuse, ServeBare, Answer, Lose, Move, Expire, SInv, TypeOK
<1>5. TypeOK'
  BY <1>1, <1>2, <1>3, <1>4 DEF sess, SInv, TypeOK, Budgets
<1> QED BY <1>1, <1>5 DEF sess, SInv, AnsweredOnce, NeverStalls, Pending

(* Every step keeps the invariant.                                         *)
LEMMA StunStep == SInv /\ [Next]_vars => SInv'
<1> SUFFICES ASSUME SInv, [Next]_vars PROVE SInv'
  OBVIOUS
<1>1. CASE \/ \E i \in {0, Interval} : stun_keepalive_enable(i)
           \/ keepalive_destructor \/ Tick
  BY <1>1, QuietStep
<1>2. CASE timeout
  BY <1>2, TimeoutStep
<1>3. CASE GiveUp
  <2>1. budget' \in [Budgets -> Nat]
    BY <1>3 DEF GiveUp, SInv, TypeOK, Budgets
  <2> QED BY Zenon, <1>3, <2>1, Completes DEF GiveUp
<1>4. CASE Retransmit
  <2>1. CASE /\ net' = net \cup {Request(ct.tid)}
             /\ ct' = [ct EXCEPT !.txc = @ + 1, !.ival = NextIval, !.due = NextIval]
             /\ UNCHANGED <<tmr, curmap, told, used, budget>>
    <3>1. ct.tid \in Tids /\ ct \in Trans
      BY <1>4 DEF Retransmit, Pending, SInv, TypeOK, Trans
    <3>2. NextIval \in Nat /\ ct.txc + 1 \in 0..Rc
      BY <1>4, <3>1, StunAssumption DEF Retransmit, Exhausted, NextIval, Trans
    <3>3. ct' \in Trans /\ ct'.tid = ct.tid
      BY Zenon, <2>1, <3>1, <3>2 DEF Trans
    <3>4. net' \subseteq [class : {"request", "success", "error"}, tid : Tids,
                          map : Maps \cup {None}]
      BY <2>1, <3>1 DEF SInv, TypeOK, Request
    <3>5. TypeOK'
      BY <1>4, <2>1, <3>3, <3>4 DEF Retransmit, SInv, TypeOK, Trans
    <3> QED BY <1>4, <2>1, <3>3, <3>5
          DEF Retransmit, SInv, AnsweredOnce, NeverStalls, Pending
  <2>2. CASE Spend("err") /\ completed(ct.tid, TRUE, FALSE, None) /\ UNCHANGED net
    <3>1. budget' \in [Budgets -> Nat]
      BY <2>2, SpendType DEF SInv, TypeOK, Budgets
    <3> QED BY Zenon, <1>4, <2>2, <3>1, Completes DEF Retransmit
  <2> QED BY Zenon, <1>4, <2>1, <2>2 DEF Retransmit
<1>5. ASSUME NEW m \in net, stun_ctrans_recv(m) PROVE SInv'
  <2>1. m.map \in Maps \cup {None} /\ (m.class = "error") \in BOOLEAN
    BY DEF SInv, TypeOK
  <2>2. budget' \in [Budgets -> Nat] /\ ct.tid = m.tid /\ Pending
    BY <1>5 DEF stun_ctrans_recv, Matches, SInv, TypeOK, Budgets
  <2> QED BY Zenon, <1>5, <2>1, <2>2, Completes DEF stun_ctrans_recv
<1>6. CASE \/ \E m \in net : Serve(m) \/ Refuse(m) \/ ServeBare(m) \/ Lose(m)
           \/ Move \/ Expire
  BY <1>6, NetworkStep
<1>7. CASE Resting \/ UNCHANGED vars
  BY <1>7 DEF Resting, vars, sess, SInv, TypeOK, AnsweredOnce, NeverStalls, Pending
<1> QED BY <1>1, <1>2, <1>3, <1>4, <1>5, <1>6, <1>7 DEF Next, Session

(***************************************************************************)
(* ctrans.c and keepalive.c: the response handler runs at most once for a  *)
(* transaction, whatever the network repeats or delays.                    *)
(***************************************************************************)
THEOREM AnswersUsedOnce == Spec => []AnsweredOnce
<1>1. SInv => AnsweredOnce
  BY DEF SInv
<1> QED BY StunInit, StunStep, <1>1, PTL DEF Spec

(***************************************************************************)
(* keepalive.c: an enabled session always has its timer or a transaction   *)
(* running, after every kind of failure.                                   *)
(***************************************************************************)
THEOREM SessionNeverStalls == Spec => []NeverStalls
<1>1. SInv => NeverStalls
  BY DEF SInv
<1> QED BY StunInit, StunStep, <1>1, PTL DEF Spec

(* Without odd answers and failed first transmissions every success names  *)
(* an address.                                                             *)
TInv ==
  /\ SInv /\ ToldCurrent /\ budget["odd"] = 0
  /\ \A m \in net : m.class = "success" => m.map # None

(* Spending anything else leaves the budget of odd events alone.           *)
LEMMA SpendOther ==
  ASSUME TInv, NEW b \in Budgets, Spend(b)
  PROVE  b # "odd" /\ budget'["odd"] = 0
BY DEF TInv, SInv, TypeOK, Spend, Budgets

(* The response handler leaves the application with the current mapping.   *)
LEMMA HandlerTells ==
  ASSUME TInv, NEW err \in BOOLEAN, NEW scode \in BOOLEAN, NEW m \in Maps \cup {None},
         NEW t, completed(t, err, scode, m), err \/ scode \/ m # None
  PROVE  ToldCurrent'
BY DEF completed, stun_response_handler, TInv, ToldCurrent

(* Every step of a session without odd events keeps the application        *)
(* informed.                                                               *)
LEMMA ToldStep == TInv /\ [Next]_vars => TInv'
<1> SUFFICES ASSUME TInv, [Next]_vars PROVE TInv'
  OBVIOUS
<1>1. SInv'
  BY StunStep DEF TInv
<1>2. ~Spend("odd")
  BY DEF TInv, Spend
<1>3. budget'["odd"] = 0
  BY Zenon, <1>2, SpendOther
    DEF Next, Session, stun_keepalive_enable, keepalive_destructor, timeout, GiveUp,
        Retransmit, stun_ctrans_recv, Serve, Refuse, ServeBare, Lose, Move, Expire, Tick,
        Resting, vars, TInv, Budgets
<1>4. \A m \in net' : m.class = "success" => m.map # None
  <2>1. map # None
    BY StunAssumption DEF TInv, SInv, TypeOK
  <2>2. CASE net' \subseteq net
    BY <2>2 DEF TInv
  <2>3. CASE \E t \in Tids : net' = net \cup {Request(t)}
    BY <2>3 DEF TInv, Request
  <2>4. ASSUME NEW m \in net, Serve(m) \/ Refuse(m)
        PROVE  \A n \in net' : n.class = "success" => n.map # None
    BY <2>1, <2>4 DEF Serve, Refuse, Answer, TInv
  <2>5. CASE timeout
    BY <1>2, <2>3, <2>5 DEF timeout
  <2>6. CASE Retransmit
    <3>1. ct.tid \in Tids
      BY <2>6 DEF Retransmit, Pending, TInv, SInv, TypeOK
    <3> QED BY Zenon, <2>2, <2>3, <2>6, <3>1 DEF Retransmit
  <2> QED BY Zenon, <1>2, <2>2, <2>4, <2>5, <2>6
      DEF Next, Session, stun_keepalive_enable, keepalive_destructor, GiveUp,
          stun_ctrans_recv, ServeBare, Lose, Move, Expire, Tick, Resting, vars
<1>5. ToldCurrent'
  <2>1. CASE GiveUp
    BY Zenon, <2>1, HandlerTells DEF GiveUp
  <2>2. CASE Retransmit
    <3>1. CASE completed(ct.tid, TRUE, FALSE, None)
      BY Zenon, <3>1, HandlerTells
    <3>2. CASE ~completed(ct.tid, TRUE, FALSE, None)
      BY Zenon, <2>2, <3>2 DEF Retransmit, TInv, ToldCurrent
    <3> QED BY Zenon, <3>1, <3>2
  <2>3. ASSUME NEW m \in net, stun_ctrans_recv(m) PROVE ToldCurrent'
    <3>1. m.map \in Maps \cup {None} /\ (m.class = "error") \in BOOLEAN
      BY DEF TInv, SInv, TypeOK
    <3>2. m.class = "error" \/ m.map # None
      BY <2>3 DEF stun_ctrans_recv, TInv
    <3> QED BY Zenon, <2>3, <3>1, <3>2, HandlerTells DEF stun_ctrans_recv
  <2>4. CASE UNCHANGED <<curmap, told>>
    BY <2>4 DEF TInv, ToldCurrent
  <2> QED BY <1>2, <2>1, <2>2, <2>3, <2>4
      DEF Next, Session, stun_keepalive_enable, keepalive_destructor, timeout,
          Serve, Refuse, ServeBare, Answer, Lose, Move, Expire, Tick, Resting, vars, sess
<1> QED BY <1>1, <1>3, <1>4, <1>5 DEF TInv

(***************************************************************************)
(* keepalive.c: while every request can be sent and every answer has an    *)
(* address, the application's last word is the mapping of the session.     *)
(***************************************************************************)
THEOREM ApplicationInformed == ASSUME MaxOdd = 0 PROVE Spec => []ToldCurrent
<1>1. Init => TInv
  <2> SUFFICES ASSUME Init PROVE TInv
    OBVIOUS
  <2>1. budget["odd"] = 0 /\ net = {} /\ curmap = None
    BY DEF Init
  <2> QED BY <2>1, StunInit DEF TInv, ToldCurrent
<1>2. TInv => ToldCurrent
  BY DEF TInv
<1> QED BY <1>1, <1>2, ToldStep, PTL DEF Spec

(***************************************************************************)
(* keepalive.c and ctrans.c: the session as its owner sees it, for every   *)
(* choice of timers, mappings and faults.                                  *)
(***************************************************************************)
THEOREM SessionSound == Spec => []SessionKept
<1>1. CASE MaxOdd = 0
  <2>1. Spec => []ToldCurrent
    BY <1>1, ApplicationInformed
  <2>2. AnsweredOnce /\ NeverStalls /\ ToldCurrent => SessionKept
    BY DEF SessionKept
  <2> QED BY <2>1, <2>2, AnswersUsedOnce, SessionNeverStalls, PTL
<1>2. CASE MaxOdd # 0
  <2>1. AnsweredOnce /\ NeverStalls => SessionKept
    BY <1>2 DEF SessionKept
  <2> QED BY <2>1, AnswersUsedOnce, SessionNeverStalls, PTL
<1> QED BY <1>1, <1>2
=============================================================================
