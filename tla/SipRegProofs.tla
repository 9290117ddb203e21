---------------------------- MODULE SipRegProofs ----------------------------
(***************************************************************************)
(* Registration, proved for any number of registration objects, any        *)
(* intervals, any share of them after which the code refreshes, any width  *)
(* of its integers and any answers of the server.                          *)
(***************************************************************************)
EXTENDS SipReg, TLAPS

(* v is w with object i and what it has under way replaced by s and m.     *)
Only(w, v, i, s, m) ==
  /\ v \in Worlds /\ v.reg.cur = w.reg.cur
  /\ v.g[i] = s /\ v.wire[i] = m
  /\ \A j \in Gens : j # i => v.g[j] = w.g[j] /\ v.wire[j] = w.wire[j]

LEMMA WithDoes ==
  ASSUME NEW w \in Worlds, NEW i \in Gens, NEW s \in Objects, NEW m \in Messages
  PROVE  Only(w, With(w, i, s, m), i, s, m)
  BY Zenon DEF Worlds, Clients, With, Only

LEMMA PutDoes ==
  ASSUME NEW w \in Worlds, NEW i \in Gens, NEW s \in Objects
  PROVE  Only(w, Put(w, i, s), i, s, w.wire[i])
<1>1. w.wire[i] \in Messages
  BY DEF Worlds
<1> QED
  BY <1>1, WithDoes DEF Put

LEMMA OnlyTwice ==
  ASSUME NEW w, NEW v, NEW u, NEW i, NEW s, NEW m, NEW t, NEW n,
         Only(w, v, i, s, m), Only(v, u, i, t, n)
  PROVE  Only(w, u, i, t, n)
  BY DEF Only

LEMMA OnlyTyped ==
  ASSUME NEW w, NEW v, NEW i \in Gens, NEW s, NEW m, Only(w, v, i, s, m)
  PROVE  s \in Objects /\ m \in Messages
  BY DEF Only, Worlds

Asked(s, reset) ==
  [s EXCEPT !.expires = IF s.state = "ending" THEN 0 ELSE s.expires, !.req = TRUE,
            !.loops = IF reset THEN 0 ELSE @, !.last = IF reset THEN 0 ELSE @]
Asking(s) ==
  [kind |-> "request", exp |-> IF s.state = "ending" THEN 0 ELSE s.expires,
   scode |-> 0, wait |-> 0]

LEMMA RequestDoes ==
  ASSUME NEW w \in Worlds, NEW i \in Gens, NEW reset \in BOOLEAN
  PROVE  Only(w, request(w, i, reset), i, Asked(w.g[i], reset), Asking(w.g[i]))
<1>1. w.g[i] \in Objects
  BY DEF Worlds
<1>2. Asked(w.g[i], reset) \in Objects
  BY Zenon, <1>1 DEF Asked, Objects
<1>3. Asking(w.g[i]) \in Messages
  BY <1>1 DEF Asking, Messages, Objects
<1>4. request(w, i, reset) = With(w, i, Asked(w.g[i], reset), Asking(w.g[i]))
  BY DEF request, Asked, Asking
<1> QED
  BY <1>2, <1>3, <1>4, WithDoes

Gone(s) == [None EXCEPT !.state = "freed", !.clean = s.clean]

LEMMA FreedDoes ==
  ASSUME NEW w \in Worlds, NEW i \in Gens
  PROVE  Only(w, Freed(w, i), i, Gone(w.g[i]), w.wire[i])
<1>1. Gone(w.g[i]) \in Objects
  BY Zenon DEF Worlds, Gone, None, Objects
<1>2. Freed(w, i) = Put(w, i, Gone(w.g[i]))
  BY DEF Freed, Gone
<1> QED
  BY <1>1, <1>2, PutDoes

LEMMA RespDoes ==
  ASSUME NEW w \in Worlds, NEW i \in Gens, NEW err \in BOOLEAN, NEW scode \in Nat
  PROVE  Only(w, resph(w, i, err, scode), i, w.g[i], w.wire[i])
<1>1. CASE w.g[i].state # "live"
  BY <1>1 DEF resph, Only, Worlds
<1>2. CASE w.g[i].state = "live"
  <2> DEFINE n == IF err THEN 999 ELSE scode
             o == IF ~err /\ scode = 200 THEN "ok" ELSE "fail"
             c == [w.reg EXCEPT !.scode = n, !.told = o]
  <2>1. c \in Clients /\ c.cur = w.reg.cur
    <3>1. w.reg \in Clients
      BY DEF Worlds
    <3>2. n \in Nat /\ o \in {"none", "ok", "fail"}
      OBVIOUS
    <3> HIDE DEF n, o
    <3> QED
      BY Zenon, <3>1, <3>2 DEF Clients
  <2>2. resph(w, i, err, scode) = [w EXCEPT !.reg = c]
    BY <1>2 DEF resph
  <2> HIDE DEF c
  <2> QED
    BY <2>1, <2>2 DEF Only, Worlds
<1> QED
  BY <1>1, <1>2

(***************************************************************************)
(* finish: an object that no longer has a request under way, nor a timer,  *)
(* goes on to wait for one of them, or is freed.  It keeps what it is      *)
(* answerable for, unless it has just unregistered.                        *)
(***************************************************************************)
Finishing(s, m) ==
  /\ s \in Objects /\ m = Quiet
  /\ s.state \in {"live", "ending"} /\ ~s.req /\ ~s.tmr
  /\ s.registered /\ s.failc = 0 => s.pexpires > 0 /\ s.wait = refresh_wait(s.pexpires)

(* From s to t, which has m under way: what response_handler may do.       *)
Moved(s, t) ==
  /\ t.state = s.state \/ (s.state = "ending" /\ t.state = "freed")
  /\ t.clean => s.clean

Finished(x, v, i) ==
  /\ Only(x, v, i, v.g[i], v.wire[i])
  /\ ObjectOk(v.g[i], v.wire[i]) /\ Moved(x.g[i], v.g[i])
  /\ v.g[i].clean = x.g[i].clean
  /\ x.g[i].registered =>
       \/ Answerable(v.g[i], v.wire[i])
       \/ x.g[i].expires = 0 /\ x.g[i].state = "ending"

LEMMA FinishDoes ==
  ASSUME NEW x \in Worlds, NEW i \in Gens, NEW err \in BOOLEAN, NEW scode \in Nat,
         Finishing(x.g[i], x.wire[i])
  PROVE  Finished(x, finish(x, i, err, scode), i)
<1> DEFINE s  == [x.g[i] EXCEPT !.loops = 0, !.last = 0]
           w  == Put(x, i, s)
           fb == IF scode \in 400..499 THEN 0 ELSE s.fbregint
           a  == [s EXCEPT !.tmr = TRUE]
           b  == [s EXCEPT !.fbregint = 0]
<1>1. /\ s \in Objects /\ Finishing(s, Quiet) /\ x.wire[i] = Quiet
      /\ s.state = x.g[i].state /\ s.expires = x.g[i].expires /\ s.clean = x.g[i].clean
      /\ s.registered = x.g[i].registered
  BY Zenon DEF Finishing, Objects
<1>2. a \in Objects /\ b \in Objects
  BY Zenon, <1>1 DEF Objects
<1>3. Only(x, w, i, s, Quiet)
  BY <1>1, PutDoes
<1>4. Only(x, resph(Put(x, i, a), i, err, scode), i, a, Quiet)
  <2>1. Only(x, Put(x, i, a), i, a, Quiet)
    BY <1>1, <1>2, PutDoes
  <2>2. Only(Put(x, i, a), resph(Put(x, i, a), i, err, scode), i, a, Quiet)
    BY <2>1, RespDoes DEF Only
  <2> QED
    BY <2>1, <2>2, OnlyTwice
<1>5. Only(x, Put(x, i, b), i, b, Quiet)
  BY <1>1, <1>2, PutDoes
<1>6. Only(x, Freed(w, i), i, Gone(s), Quiet)
  <2>1. w \in Worlds /\ w.g[i] = s /\ w.wire[i] = Quiet
    BY <1>3 DEF Only
  <2>2. Only(w, Freed(w, i), i, Gone(s), Quiet)
    BY <2>1, FreedDoes
  <2> QED
    BY ONLY <1>3, <2>2, OnlyTwice
<1>7. Only(x, request(w, i, TRUE), i, Asked(s, TRUE), Asking(s))
  <2>1. w \in Worlds /\ w.g[i] = s
    BY <1>3 DEF Only
  <2>2. Only(w, request(w, i, TRUE), i, Asked(s, TRUE), Asking(s))
    BY Zenon, <2>1, RequestDoes
  <2> HIDE DEF s, w
  <2> QED
    BY ONLY Zenon, <1>3, <2>2, OnlyTwice
<1>8. CASE s.expires = 0 /\ s.state = "ending"
  <2>1. finish(x, i, err, scode) = Freed(w, i)
    BY Zenon, <1>8 DEF finish
  <2>2. ObjectOk(Gone(s), Quiet) /\ Moved(s, Gone(s)) /\ Gone(s).clean = s.clean
    BY <1>1, <1>8 DEF Gone, None, ObjectOk, Quiet, Moved, Objects
  <2> HIDE DEF s, w
  <2> QED
    BY ONLY <1>1, <1>6, <1>8, <2>1, <2>2 DEF Moved, Only, Finished
<1>9. CASE s.expires = 0 /\ s.state = "live" /\ fb # 0
  <2>1. finish(x, i, err, scode) = resph(Put(x, i, a), i, err, scode)
    BY Zenon, <1>9 DEF finish
  <2>2. ObjectOk(a, Quiet) /\ Moved(s, a) /\ a.clean = s.clean /\ (s.registered => Answerable(a, Quiet))
    <3>1. s.fbregint # 0
      BY <1>9
    <3> HIDE DEF s, fb
    <3> QED
      BY Zenon, <1>1, <1>9, <3>1 DEF ObjectOk, Quiet, Moved, Objects, Answerable, Finishing
  <2> HIDE DEF s, w, a, fb
  <2> QED
    BY ONLY <1>1, <1>4, <1>9, <2>1, <2>2 DEF Moved, Only, Finished
<1>10. CASE s.expires = 0 /\ s.state = "live" /\ fb = 0
  <2>1. finish(x, i, err, scode) = Put(x, i, b)
    BY Zenon, <1>10 DEF finish
  <2>2. ObjectOk(b, Quiet) /\ Moved(s, b) /\ b.clean = s.clean /\ (s.registered => Answerable(b, Quiet))
    <3> HIDE DEF s
    <3> QED
      BY <1>1, <1>10 DEF ObjectOk, Quiet, Moved, Objects, Answerable, Finishing
  <2> HIDE DEF s, w, b, fb
  <2> QED
    BY ONLY <1>1, <1>5, <1>10, <2>1, <2>2 DEF Moved, Only, Finished
<1>11. CASE s.expires # 0 /\ s.state = "ending" /\ s.registered
  <2>1. finish(x, i, err, scode) = request(w, i, TRUE)
    BY Zenon, <1>11 DEF finish
  <2>2. /\ ObjectOk(Asked(s, TRUE), Asking(s)) /\ Moved(s, Asked(s, TRUE))
        /\ Asked(s, TRUE).clean = s.clean /\ Answerable(Asked(s, TRUE), Asking(s))
    <3> HIDE DEF s
    <3> QED
      BY Zenon, <1>1, <1>11 DEF ObjectOk, Quiet, Moved, Objects, Answerable, Finishing, Asked, Asking
  <2> HIDE DEF s, w
  <2> QED
    BY ONLY ZenonT(30), <1>1, <1>7, <1>11, <2>1, <2>2 DEF Moved, Only, Finished
<1>12. CASE s.expires # 0 /\ s.state = "ending" /\ ~s.registered
  <2>1. finish(x, i, err, scode) = Freed(w, i)
    BY <1>12 DEF finish
  <2>2. ObjectOk(Gone(s), Quiet) /\ Moved(s, Gone(s)) /\ Gone(s).clean = s.clean
    BY <1>1, <1>12 DEF Gone, None, ObjectOk, Quiet, Moved, Objects
  <2> HIDE DEF s, w
  <2> QED
    BY ONLY <1>1, <1>6, <1>12, <2>1, <2>2 DEF Moved, Only, Finished
<1>13. CASE s.expires # 0 /\ s.state = "live"
  <2>1. finish(x, i, err, scode) = resph(Put(x, i, a), i, err, scode)
    BY Zenon, <1>13 DEF finish
  <2>2. ObjectOk(a, Quiet) /\ Moved(s, a) /\ a.clean = s.clean /\ (s.registered => Answerable(a, Quiet))
    <3> HIDE DEF s
    <3> QED
      BY Zenon, <1>1, <1>13 DEF ObjectOk, Quiet, Moved, Objects, Answerable, Finishing
  <2> HIDE DEF s, w, a, fb
  <2> QED
    BY ONLY <1>1, <1>4, <1>13, <2>1, <2>2 DEF Moved, Only, Finished
<1>14. s.state \in {"live", "ending"}
  BY <1>1 DEF Finishing
<1> HIDE DEF s, w, a, b, fb
<1> QED
  BY <1>8, <1>9, <1>10, <1>11, <1>12, <1>13, <1>14

(***************************************************************************)
(* The ways of response_handler to finish: after a failure, and after a    *)
(* success for granted seconds.                                            *)
(***************************************************************************)
Idle(s, m) == m = Quiet /\ s.state \in {"live", "ending"} /\ ~s.req /\ ~s.tmr

LEMMA FailedFinish ==
  ASSUME NEW u \in Worlds, NEW i \in Gens, NEW err \in BOOLEAN, NEW scode \in Nat,
         Idle(u.g[i], u.wire[i])
  PROVE  Finished(u, finish(Failed(u, i), i, err, scode), i)
<1> DEFINE o == u.g[i]
           s == [o EXCEPT !.failc = 1, !.wait = 0]
           x == Failed(u, i)
           v == finish(x, i, err, scode)
<1>1. o \in Objects /\ u.wire[i] = Quiet /\ Idle(o, Quiet)
  BY DEF Worlds, Idle
<1>2. /\ s \in Objects /\ Finishing(s, Quiet) /\ s.registered = o.registered
      /\ s.state = o.state /\ s.expires = o.expires /\ s.clean = o.clean
  <2> HIDE DEF o
  <2>1. /\ s \in Objects /\ s.registered = o.registered /\ s.failc = 1 /\ s.req = o.req
        /\ s.state = o.state /\ s.expires = o.expires /\ s.clean = o.clean /\ s.tmr = o.tmr
    BY Zenon, <1>1 DEF Objects
  <2> HIDE DEF s
  <2> QED
    BY <1>1, <2>1 DEF Idle, Finishing
<1>3. Only(u, x, i, s, Quiet)
  BY <1>1, <1>2, PutDoes DEF Failed
<1>4. x \in Worlds /\ x.g[i] = s /\ x.wire[i] = Quiet
  BY <1>3 DEF Only
<1> HIDE DEF s, x
<1>5. Finished(x, v, i)
  BY <1>2, <1>4, FinishDoes
<1> HIDE DEF v
<1>6. Only(u, v, i, v.g[i], v.wire[i])
  BY <1>3, <1>5, OnlyTwice DEF Finished
<1>7. Finished(u, v, i)
  BY ONLY <1>2, <1>4, <1>5, <1>6 DEF Finished, Moved
<1> QED
  BY <1>7 DEF v, x

Succeeded(u, v, i, granted) ==
  /\ Only(u, v, i, v.g[i], v.wire[i])
  /\ ObjectOk(v.g[i], v.wire[i]) /\ Moved(u.g[i], v.g[i])
  /\ granted > 0 => \/ Answerable(v.g[i], v.wire[i])
                    \/ u.g[i].expires = 0 /\ u.g[i].state = "ending"

LEMMA AcceptedFinish ==
  ASSUME RegAssumption, NEW u \in Worlds, NEW i \in Gens, NEW granted \in Nat,
         Idle(u.g[i], u.wire[i])
  PROVE  Succeeded(u, finish(accepted(u, i, granted), i, FALSE, 200), i, granted)
<1> DEFINE o == u.g[i]
           b == granted > 0
           k == o.ka \/ o.state = "live"
           t == refresh_wait(granted)
           s == [o EXCEPT !.registered = b, !.pexpires = granted, !.wait = t, !.failc = 0,
                          !.ka = k]
           x == accepted(u, i, granted)
           v == finish(x, i, FALSE, 200)
<1>1. o \in Objects /\ u.wire[i] = Quiet /\ Idle(o, Quiet)
  BY DEF Worlds, Idle
<1>2. t \in Nat /\ b \in BOOLEAN /\ k \in BOOLEAN
  BY <1>1 DEF refresh_wait, RegAssumption, Objects
<1>3. /\ s \in Objects /\ Finishing(s, Quiet) /\ s.registered = b
      /\ s.state = o.state /\ s.expires = o.expires /\ s.clean = o.clean
  <2>1. b => granted > 0 /\ t = refresh_wait(granted)
    OBVIOUS
  <2> HIDE DEF o, b, k, t
  <2> QED
    BY ZenonT(30), <1>1, <1>2, <2>1 DEF Objects, Idle, Finishing
<1>4. Only(u, x, i, s, Quiet)
  BY <1>1, <1>3, PutDoes DEF accepted
<1>5. x \in Worlds /\ x.g[i] = s /\ x.wire[i] = Quiet
  BY <1>4 DEF Only
<1> HIDE DEF s, x
<1>6. Finished(x, v, i)
  <2>1. FALSE \in BOOLEAN /\ 200 \in Nat
    OBVIOUS
  <2> QED
    BY ZenonT(30), <1>3, <1>5, <2>1, FinishDoes
<1> HIDE DEF v
<1>7. Only(u, v, i, v.g[i], v.wire[i])
  BY <1>4, <1>6, OnlyTwice DEF Finished
<1>8. /\ ObjectOk(v.g[i], v.wire[i]) /\ Moved(u.g[i], v.g[i])
      /\ granted > 0 => \/ Answerable(v.g[i], v.wire[i])
                        \/ u.g[i].expires = 0 /\ u.g[i].state = "ending"
  BY ONLY Zenon, <1>3, <1>5, <1>6 DEF Finished, Moved
<1> QED
  BY Zenon, <1>7, <1>8 DEF v, x, Succeeded

(***************************************************************************)
(* response_handler: the object is in order again.  A binding it answers   *)
(* for it goes on to answer for, unless the request was given up or the    *)
(* unregistration refused.                                                 *)
(***************************************************************************)
Responded(w, v, i, err) ==
  /\ Only(w, v, i, v.g[i], v.wire[i])
  /\ ObjectOk(v.g[i], v.wire[i]) /\ Moved(w.g[i], v.g[i])
  /\ err => ~v.g[i].clean
  /\ Answerable(w.g[i], w.wire[i]) /\ v.g[i].clean => Answerable(v.g[i], v.wire[i])

LEMMA LoopsDoes ==
  ASSUME NEW o \in Objects, NEW scode \in Nat
  PROVE  LET l == loops(o, scode) IN
         /\ l \in Objects /\ l.state = o.state /\ l.expires = o.expires /\ l.tmr = o.tmr
         /\ l.registered = o.registered /\ l.clean = o.clean /\ l.failc = o.failc
         /\ l.pexpires = o.pexpires /\ l.wait = o.wait
<1>1. CASE scode = 200
  BY ZenonT(30), <1>1 DEF loops, Objects
<1>2. CASE scode # 200
  <2>1. loops(o, scode) = [o EXCEPT !.loops = @ + 1, !.last = scode]
    BY <1>2 DEF loops
  <2>2. o.loops + 1 \in Nat
    BY DEF Objects
  <2> QED
    BY ZenonT(30), <2>1, <2>2 DEF Objects
<1> QED
  BY <1>1, <1>2

(* An object that has nothing under way is in order once it has asked.     *)
LEMMA AskedOk ==
  ASSUME NEW o \in Objects, Idle(o, Quiet), NEW reset \in BOOLEAN,
         o.registered /\ o.failc = 0 => o.pexpires > 0 /\ o.wait = refresh_wait(o.pexpires)
  PROVE  /\ ObjectOk(Asked(o, reset), Asking(o)) /\ Moved(o, Asked(o, reset))
         /\ Asked(o, reset).clean = o.clean
         /\ o.registered => Answerable(Asked(o, reset), Asking(o))
<1> DEFINE t == Asked(o, reset)
           m == Asking(o)
<1>1. /\ t.req = TRUE /\ t.tmr = FALSE /\ t.state = o.state /\ t.clean = o.clean
      /\ t.registered = o.registered /\ t.failc = o.failc /\ t.pexpires = o.pexpires
      /\ t.wait = o.wait /\ t.expires = m.exp /\ m.kind = "request"
  BY DEF Asked, Asking, Idle, Objects
<1>2. o.state \in {"live", "ending"}
  BY DEF Idle
<1> HIDE DEF t, m
<1>3. ObjectOk(t, m) /\ Moved(o, t) /\ (o.registered => Answerable(t, m))
  BY <1>1, <1>2 DEF ObjectOk, Moved, Answerable
<1> QED
  BY <1>1, <1>3 DEF t, m

LEMMA ResponseDoes ==
  ASSUME RegAssumption, NEW w \in Worlds, NEW i \in Gens, NEW err \in BOOLEAN,
         NEW scode \in Nat, NEW granted \in Nat, NEW cred \in BOOLEAN,
         ObjectOk(w.g[i], w.wire[i]), w.g[i].req,
         ~err => /\ w.wire[i].kind = "answer"
                 /\ w.wire[i].scode = scode /\ w.wire[i].wait = granted
  PROVE  Responded(w, response_handler(w, i, err, scode, granted, cred), i, err)
<1> DEFINE s == w.g[i]
           m == w.wire[i]
           loop == is_loop(s, scode)
           refused == s.expires = 0 /\ scode # 200 /\ (loop \/ scode # 401 \/ ~cred)
           c == s.clean /\ ~err /\ ~refused
           l == loops(s, scode)
           q == [l EXCEPT !.req = FALSE, !.clean = @ /\ ~err /\ ~refused]
           u == With(w, i, q, Quiet)
           v == response_handler(w, i, err, scode, granted, cred)
<1>1. s \in Objects /\ m \in Messages
  BY DEF Worlds
<1>2. loop \in BOOLEAN /\ refused \in BOOLEAN /\ c \in BOOLEAN
  BY <1>1 DEF is_loop, Objects
<1>3. q = [l EXCEPT !.req = FALSE, !.clean = c] /\ l \in Objects
  <2>1. l \in Objects /\ l.clean = s.clean
    BY <1>1, LoopsDoes
  <2> HIDE DEF l, s, refused
  <2> QED
    BY <2>1 DEF Objects
<1>4. /\ q \in Objects /\ q.state = s.state /\ q.expires = s.expires /\ q.tmr = s.tmr
      /\ q.registered = s.registered /\ q.req = FALSE /\ q.clean = c /\ q.failc = s.failc
      /\ q.pexpires = s.pexpires /\ q.wait = s.wait
  <2>1. /\ l \in Objects /\ l.state = s.state /\ l.expires = s.expires /\ l.tmr = s.tmr
        /\ l.registered = s.registered /\ l.clean = s.clean /\ l.failc = s.failc
        /\ l.pexpires = s.pexpires /\ l.wait = s.wait
    BY <1>1, LoopsDoes
  <2> HIDE DEF l, s, c, q
  <2> QED
    BY Zenon, <1>1, <1>2, <1>3, <2>1 DEF Objects
<1>5. Idle(q, Quiet) /\ ~s.tmr /\ s.state \in {"live", "ending"}
  <2> HIDE DEF s, m, q
  <2>1. s.req /\ ObjectOk(s, m)
    BY DEF s, m
  <2> QED
    BY Zenon, <1>1, <1>4, <2>1 DEF Idle, ObjectOk, Objects
<1>6. Only(w, u, i, q, Quiet)
  <2>1. Quiet \in Messages
    BY DEF Quiet, Messages
  <2> QED
    BY <1>4, <2>1, WithDoes
<1>7. u \in Worlds /\ u.g[i] = q /\ u.wire[i] = Quiet /\ Idle(u.g[i], u.wire[i])
  BY Zenon, <1>5, <1>6 DEF Only
<1>8. ObjectOk(s, m) /\ (~err => m.kind = "answer" /\ m.scode = scode /\ m.wait = granted)
  OBVIOUS
<1>9. /\ c => s.clean /\ ~err /\ ~refused
      /\ scode # 200 /\ ~err => (Answerable(s, m) => s.registered)
      /\ loop => scode # 200
  <2>1. loop => scode # 200
    BY DEF is_loop
  <2> HIDE DEF loop, refused
  <2>2. scode # 200 /\ ~err => (Answerable(s, m) => s.registered)
    BY <1>1, <1>8 DEF Answerable, Objects, Messages
  <2> QED
    BY <2>1, <2>2
<1>17. q.registered /\ q.failc = 0 => q.pexpires > 0 /\ q.wait = refresh_wait(q.pexpires)
  <2> HIDE DEF q, s, m
  <2> QED
    BY <1>4, <1>8 DEF ObjectOk
<1> DEFINE again  == request(u, i, FALSE)
           longer == request(Put(u, i, [u.g[i] EXCEPT !.expires = MinExp]), i, FALSE)
           ended  == finish(u, i, FALSE, scode)
           failed == finish(Failed(u, i), i, FALSE, scode)
           rest   == IF s.state = "ending" /\ ~s.registered THEN ended
                     ELSE IF scode = 401 /\ cred THEN again
                     ELSE IF scode = 423 /\ s.expires # 0 THEN longer
                     ELSE failed
<1>18. v = CASE err -> finish(Failed(u, i), i, TRUE, 0)
             [] ~err /\ loop -> finish(Failed(u, i), i, FALSE, scode)
             [] ~err /\ ~loop /\ scode = 200 ->
                  finish(accepted(u, i, granted), i, FALSE, scode)
             [] ~err /\ ~loop /\ scode # 200 -> rest
  BY DEF response_handler
<1> HIDE DEF again, longer, ended, failed
<1>10. CASE err
  <2> HIDE DEF q, u, v, s, m, loop
  <2>1. v = finish(Failed(u, i), i, TRUE, 0)
    BY <1>10, <1>18
  <2>2. Finished(u, v, i)
    BY Zenon, <1>5, <1>7, <2>1, FailedFinish
  <2>3. Only(w, v, i, v.g[i], v.wire[i])
    BY ONLY <1>6, <2>2, OnlyTwice DEF Finished
  <2> HIDE DEF c
  <2>4. /\ ObjectOk(v.g[i], v.wire[i]) /\ Moved(s, v.g[i]) /\ ~v.g[i].clean
    BY ONLY <1>4, <1>7, <1>9, <1>10, <2>2 DEF Finished, Moved
  <2> QED
    BY Zenon, <1>10, <2>3, <2>4 DEF Responded, v, s
<1>11. CASE ~err /\ loop
  <2> HIDE DEF q, u, v, s, m, loop
  <2>1. v = finish(Failed(u, i), i, FALSE, scode)
    BY <1>11, <1>18
  <2>2. s.expires = 0 => refused
    BY <1>9, <1>11
  <2> HIDE DEF refused, c
  <2>3. Finished(u, v, i)
    BY Zenon, <1>5, <1>7, <2>1, FailedFinish
  <2>4. Only(w, v, i, v.g[i], v.wire[i])
    BY ONLY <1>6, <2>3, OnlyTwice DEF Finished
  <2>5. /\ ObjectOk(v.g[i], v.wire[i]) /\ Moved(s, v.g[i])
        /\ Answerable(s, m) /\ v.g[i].clean => Answerable(v.g[i], v.wire[i])
    BY ONLY <1>4, <1>7, <1>9, <1>11, <2>2, <2>3 DEF Finished, Moved
  <2> QED
    BY <1>11, <2>4, <2>5 DEF Responded, v, s, m
<1>12. CASE ~err /\ ~loop /\ scode = 200
  <2> HIDE DEF q, u, v, s, m, loop
  <2>1. v = finish(accepted(u, i, granted), i, FALSE, 200)
    BY <1>12, <1>18
  <2> HIDE DEF refused, c
  <2>2. /\ Only(u, v, i, v.g[i], v.wire[i])
        /\ ObjectOk(v.g[i], v.wire[i]) /\ Moved(q, v.g[i])
        /\ granted > 0 => \/ Answerable(v.g[i], v.wire[i])
                          \/ q.expires = 0 /\ q.state = "ending"
    <3>1. Succeeded(u, v, i, granted)
      BY ZenonT(30), <1>7, <2>1, AcceptedFinish
    <3> QED
      BY ONLY <1>7, <3>1 DEF Succeeded
  <2>3. Only(w, v, i, v.g[i], v.wire[i])
    BY ONLY <1>6, <2>2, OnlyTwice
  <2>4. Answerable(s, m) => granted > 0 /\ s.expires # 0
    BY <1>1, <1>8, <1>12 DEF Answerable, ObjectOk, Objects, Messages
  <2>5. /\ ObjectOk(v.g[i], v.wire[i]) /\ Moved(s, v.g[i])
        /\ Answerable(s, m) /\ v.g[i].clean => Answerable(v.g[i], v.wire[i])
    BY ONLY <1>4, <1>9, <2>2, <2>4 DEF Moved
  <2> QED
    BY <1>12, <2>3, <2>5 DEF Responded, v, s, m
<1> DEFINE Other == ~err /\ ~loop /\ scode # 200
<1>13. CASE Other /\ s.state = "ending" /\ ~s.registered
  <2> HIDE DEF q, u, v, s, m, loop
  <2>1. v = finish(u, i, FALSE, scode)
    BY <1>13, <1>18 DEF ended
  <2> HIDE DEF refused, c
  <2>2. Finishing(q, Quiet)
    BY <1>4, <1>5, <1>13 DEF Finishing, Idle
  <2>3. Finished(u, v, i)
    BY Zenon, <1>7, <2>1, <2>2, FinishDoes
  <2>4. Only(w, v, i, v.g[i], v.wire[i])
    BY ONLY <1>6, <2>3, OnlyTwice DEF Finished
  <2>5. /\ ObjectOk(v.g[i], v.wire[i]) /\ Moved(s, v.g[i]) /\ ~Answerable(s, m)
    BY ONLY <1>4, <1>7, <1>9, <1>13, <2>3 DEF Finished, Moved
  <2> QED
    BY <1>13, <2>4, <2>5 DEF Responded, v, s, m
<1> DEFINE Kept == Other /\ ~(s.state = "ending" /\ ~s.registered)
<1>14. CASE Kept /\ scode = 401 /\ cred
  <2> HIDE DEF q, u, v, s, m, loop
  <2>1. v = request(u, i, FALSE)
    <3>1. /\ ~err /\ ~loop /\ scode # 200 /\ ~(s.state = "ending" /\ ~s.registered)
          /\ scode = 401 /\ cred
      BY <1>14
    <3>2. rest = again
      BY <3>1
    <3> HIDE DEF rest
    <3>3. v = rest
      BY <1>14, <1>18
    <3> QED
      BY <3>2, <3>3 DEF again
  <2> HIDE DEF refused, c
  <2>2. Only(u, v, i, Asked(q, FALSE), Asking(q))
    BY Zenon, <1>7, <2>1, RequestDoes
  <2>3. Only(w, v, i, Asked(q, FALSE), Asking(q))
    BY ONLY Zenon, <1>6, <2>2, OnlyTwice
  <2>4. /\ ObjectOk(Asked(q, FALSE), Asking(q)) /\ Moved(q, Asked(q, FALSE))
        /\ q.registered => Answerable(Asked(q, FALSE), Asking(q))
    BY Zenon, <1>4, <1>5, <1>17, AskedOk
  <2>5. Only(w, v, i, v.g[i], v.wire[i]) /\ v.g[i] = Asked(q, FALSE) /\ v.wire[i] = Asking(q)
    BY <2>3 DEF Only
  <2>6. /\ ObjectOk(v.g[i], v.wire[i]) /\ Moved(s, v.g[i])
        /\ Answerable(s, m) => Answerable(v.g[i], v.wire[i])
    <3>1. Answerable(s, m) => q.registered
      BY <1>4, <1>9, <1>14
    <3> QED
      BY ONLY ZenonT(30), <1>4, <1>9, <2>4, <2>5, <3>1 DEF Moved
  <2> QED
    BY Zenon, <1>14, <2>5, <2>6 DEF Responded, v, s, m
<1>15. CASE Kept /\ scode = 423 /\ s.expires # 0
  <2> DEFINE e == [q EXCEPT !.expires = MinExp]
             y == Put(u, i, e)
  <2> HIDE DEF q, u, v, s, m, loop
  <2>1. v = request(y, i, FALSE)
    <3>1. /\ ~err /\ ~loop /\ scode # 200 /\ ~(s.state = "ending" /\ ~s.registered)
          /\ ~(scode = 401 /\ cred) /\ scode = 423 /\ s.expires # 0
      BY <1>15
    <3>2. rest = longer
      BY <3>1
    <3>3. v = rest
      <4> HIDE DEF rest
      <4> QED
        BY <1>15, <1>18
    <3>4. y = Put(u, i, [u.g[i] EXCEPT !.expires = MinExp])
      BY <1>7
    <3> QED
      BY Zenon, <3>2, <3>3, <3>4 DEF longer
  <2> HIDE DEF refused, c
  <2>2. /\ e \in Objects /\ e.state = q.state /\ e.registered = q.registered /\ e.clean = q.clean
        /\ Idle(e, Quiet) /\ e.failc = q.failc /\ e.pexpires = q.pexpires /\ e.wait = q.wait
    BY <1>4, <1>5 DEF Idle, Objects, RegAssumption
  <2> HIDE DEF e
  <2>3. Only(u, y, i, e, Quiet)
    BY <1>7, <2>2, PutDoes
  <2> HIDE DEF y
  <2>4. Only(y, v, i, Asked(e, FALSE), Asking(e))
    <3>1. y \in Worlds /\ y.g[i] = e /\ FALSE \in BOOLEAN
      BY <2>3 DEF Only
    <3> QED
      BY Zenon, <2>1, <3>1, RequestDoes
  <2>5. Only(w, v, i, Asked(e, FALSE), Asking(e))
    BY ONLY Zenon, <1>6, <2>3, <2>4, OnlyTwice
  <2>6. /\ ObjectOk(Asked(e, FALSE), Asking(e)) /\ Moved(e, Asked(e, FALSE))
        /\ e.registered => Answerable(Asked(e, FALSE), Asking(e))
    BY Zenon, <1>17, <2>2, AskedOk
  <2>7. Only(w, v, i, v.g[i], v.wire[i]) /\ v.g[i] = Asked(e, FALSE) /\ v.wire[i] = Asking(e)
    BY <2>5 DEF Only
  <2>8. /\ ObjectOk(v.g[i], v.wire[i]) /\ Moved(s, v.g[i])
        /\ Answerable(s, m) => Answerable(v.g[i], v.wire[i])
    <3>1. Answerable(s, m) => e.registered
      BY <1>4, <1>9, <1>15, <2>2
    <3> QED
      BY ONLY ZenonT(30), <1>4, <1>9, <2>2, <2>6, <2>7, <3>1 DEF Moved
  <2> QED
    BY <1>15, <2>7, <2>8 DEF Responded, v, s, m
<1>16. CASE Kept /\ ~(scode = 401 /\ cred) /\ ~(scode = 423 /\ s.expires # 0)
  <2> HIDE DEF q, u, v, s, m, loop
  <2>1. v = finish(Failed(u, i), i, FALSE, scode)
    BY Zenon, <1>16, <1>18 DEF failed
  <2>2. s.expires = 0 => refused
    BY <1>16
  <2> HIDE DEF refused, c
  <2>3. Finished(u, v, i)
    BY Zenon, <1>5, <1>7, <2>1, FailedFinish
  <2>4. Only(w, v, i, v.g[i], v.wire[i])
    BY ONLY <1>6, <2>3, OnlyTwice DEF Finished
  <2>5. /\ ObjectOk(v.g[i], v.wire[i]) /\ Moved(s, v.g[i])
        /\ Answerable(s, m) /\ v.g[i].clean => Answerable(v.g[i], v.wire[i])
    BY ONLY <1>4, <1>7, <1>9, <1>16, <2>2, <2>3 DEF Finished, Moved
  <2> QED
    BY <1>16, <2>4, <2>5 DEF Responded, v, s, m
<1> HIDE DEF s, m, loop
<1> QED
  BY <1>10, <1>11, <1>12, <1>13, <1>14, <1>15, <1>16

(***************************************************************************)
(* destructor: a live object is let go.                                    *)
(***************************************************************************)
LetGo(w, v, i) ==
  /\ Only(w, v, i, v.g[i], v.wire[i])
  /\ ObjectOk(v.g[i], v.wire[i]) /\ v.g[i].state # "live" /\ v.g[i].clean = w.g[i].clean
  /\ Answerable(w.g[i], w.wire[i]) => Answerable(v.g[i], v.wire[i])

LEMMA DestructorDoes ==
  ASSUME NEW w \in Worlds, NEW i \in Gens, ObjectOk(w.g[i], w.wire[i]), w.g[i].state = "live"
  PROVE  LetGo(w, destructor(w, i), i)
<1> DEFINE s == w.g[i]
           m == w.wire[i]
           q == [s EXCEPT !.state = "ending", !.tmr = FALSE]
           u == Put(w, i, q)
           v == destructor(w, i)
<1>1. s \in Objects /\ m \in Messages /\ ObjectOk(s, m) /\ s.state = "live"
  BY DEF Worlds
<1>2. /\ q \in Objects /\ q.state = "ending" /\ q.tmr = FALSE /\ q.req = s.req
      /\ q.registered = s.registered /\ q.expires = s.expires /\ q.clean = s.clean
      /\ q.failc = s.failc /\ q.pexpires = s.pexpires /\ q.wait = s.wait
  <2> HIDE DEF s
  <2> QED
    BY ZenonT(30), <1>1 DEF Objects
<1>3. Only(w, u, i, q, m)
  BY <1>2, PutDoes
<1>4. u \in Worlds /\ u.g[i] = q /\ u.wire[i] = m
  BY <1>3 DEF Only
<1>5. v = IF s.req THEN u ELSE IF s.registered THEN request(u, i, TRUE) ELSE Freed(u, i)
  BY DEF destructor
<1> HIDE DEF s, m, q, u, v
<1>6. q.registered /\ q.failc = 0 => q.pexpires > 0 /\ q.wait = refresh_wait(q.pexpires)
  BY <1>1, <1>2 DEF ObjectOk
<1>7. CASE s.req
  <2>1. ObjectOk(q, m) /\ (Answerable(s, m) => Answerable(q, m))
    BY <1>1, <1>2, <1>7 DEF ObjectOk, Answerable
  <2>2. v = u
    BY <1>5, <1>7
  <2> QED
    BY <1>2, <1>3, <1>4, <2>1, <2>2 DEF LetGo, s, m, v
<1>8. CASE ~s.req /\ s.registered
  <2>1. v = request(u, i, TRUE)
    BY <1>5, <1>8
  <2>2. Idle(q, Quiet) /\ TRUE \in BOOLEAN
    BY <1>2, <1>8 DEF Idle
  <2>3. Only(u, v, i, Asked(q, TRUE), Asking(q))
    BY Zenon, <1>4, <2>1, <2>2, RequestDoes
  <2>4. Only(w, v, i, Asked(q, TRUE), Asking(q))
    BY ONLY Zenon, <1>3, <2>3, OnlyTwice
  <2>5. /\ ObjectOk(Asked(q, TRUE), Asking(q)) /\ Moved(q, Asked(q, TRUE))
        /\ Asked(q, TRUE).clean = q.clean /\ Answerable(Asked(q, TRUE), Asking(q))
    BY Zenon, <1>2, <1>6, <1>8, <2>2, AskedOk
  <2>6. Asked(q, TRUE).state # "live"
    BY Zenon, <1>2, <2>5 DEF Moved
  <2>7. v.g[i] = Asked(q, TRUE) /\ v.wire[i] = Asking(q)
    BY <2>4 DEF Only
  <2>8. LetGo(w, v, i)
    BY ONLY Zenon, <1>2, <2>4, <2>5, <2>6, <2>7 DEF LetGo, s
  <2> QED
    BY <2>8 DEF v
<1>9. CASE ~s.req /\ ~s.registered
  <2>1. v = Freed(u, i)
    BY <1>5, <1>9
  <2>2. Only(u, v, i, Gone(q), m)
    BY <1>4, <2>1, FreedDoes
  <2>3. Only(w, v, i, Gone(q), m)
    BY ONLY <1>3, <2>2, OnlyTwice
  <2>4. /\ ObjectOk(Gone(q), m) /\ ~Answerable(s, m)
        /\ Gone(q).clean = q.clean /\ Gone(q).state # "live"
    BY <1>1, <1>9 DEF ObjectOk, Answerable, Gone, None
  <2>5. v.g[i] = Gone(q) /\ v.wire[i] = m
    BY <2>3 DEF Only
  <2>6. LetGo(w, v, i)
    BY ONLY <1>2, <2>3, <2>4, <2>5 DEF LetGo, s, m
  <2> QED
    BY <2>6 DEF v
<1> QED
  BY <1>7, <1>8, <1>9

(***************************************************************************)
(* From one world to the next: no object loses sight of a binding, unless  *)
(* it is no longer clean.                                                  *)
(***************************************************************************)
Keeps(w, v) ==
  \A i \in Gens :
    /\ v.g[i].clean => w.g[i].clean
    /\ Answerable(w.g[i], w.wire[i]) /\ v.g[i].clean => Answerable(v.g[i], v.wire[i])

LEMMA KeptStep ==
  ASSUME RegInv, NEW v, InOrder(v), Keeps(World, v), Becomes(v), srv' = srv,
         late' = late \/ \E i \in Gens : ~v.g[i].clean
  PROVE  RegInv'
<1>1. World' = v /\ World.g = g /\ World.wire = wire /\ World.reg = reg
  BY DEF Becomes, World, InOrder, Worlds
<1>2. InOrder(World)'
  BY <1>1 DEF InOrder
<1>3. g' = v.g /\ wire' = v.wire
  BY DEF Becomes
<1>4. \A i \in Gens : /\ g'[i].clean => g[i].clean
                      /\ Answerable(g[i], wire[i]) /\ g'[i].clean => Answerable(g'[i], wire'[i])
  BY <1>1, <1>3 DEF Keeps
<1>5. late' # <<>> => \E i \in Gens : ~g'[i].clean
  <2>1. late # <<>> => \E i \in Gens : ~g[i].clean
    BY DEF RegInv
  <2>2. CASE late' = late
    <3> SUFFICES ASSUME late # <<>> PROVE \E i \in Gens : ~g'[i].clean
      BY <2>2
    <3>1. PICK j \in Gens : ~g[j].clean
      BY <2>1
    <3>2. g'[j].clean => g[j].clean
      BY <1>4
    <3>3. ~g'[j].clean
      BY ONLY <3>1, <3>2
    <3> QED
      BY <3>3
  <2>3. CASE \E i \in Gens : ~v.g[i].clean
    BY ONLY <1>3, <2>3
  <2> QED
    BY <2>2, <2>3
<1>6. srv'.bound => \E i \in Gens : Answerable(g'[i], wire'[i]) \/ ~g'[i].clean
  <2>1. srv.bound => \E i \in Gens : Answerable(g[i], wire[i]) \/ ~g[i].clean
    BY DEF RegInv
  <2> SUFFICES ASSUME srv.bound
               PROVE  \E i \in Gens : Answerable(g'[i], wire'[i]) \/ ~g'[i].clean
    OBVIOUS
  <2>2. PICK j \in Gens : Answerable(g[j], wire[j]) \/ ~g[j].clean
    BY <2>1
  <2>3. /\ g'[j].clean => g[j].clean
        /\ Answerable(g[j], wire[j]) /\ g'[j].clean => Answerable(g'[j], wire'[j])
    BY <1>4
  <2>4. Answerable(g'[j], wire'[j]) \/ ~g'[j].clean
    BY ONLY <2>2, <2>3
  <2> QED
    BY <2>4
<1>7. srv' \in [bound : BOOLEAN]
  BY DEF RegInv
<1> QED
  BY <1>2, <1>5, <1>6, <1>7 DEF RegInv

LEMMA OneMoves ==
  ASSUME NEW w, InOrder(w), NEW v, NEW i \in Gens, i <= w.reg.cur,
         Only(w, v, i, v.g[i], v.wire[i]), ObjectOk(v.g[i], v.wire[i]),
         v.g[i].state = "live" => w.g[i].state = "live",
         v.g[i].clean => w.g[i].clean,
         Answerable(w.g[i], w.wire[i]) /\ v.g[i].clean => Answerable(v.g[i], v.wire[i])
  PROVE  InOrder(v) /\ Keeps(w, v)
<1>1. v \in Worlds /\ v.reg.cur = w.reg.cur /\ w.reg.cur \in Nat /\ i \in Nat
  BY SMTT(30) DEF Only, InOrder, Worlds, Clients, Gens
<1>2. ASSUME NEW j \in Gens
      PROVE  /\ ObjectOk(v.g[j], v.wire[j])
             /\ v.g[j].state = "live" => j = v.reg.cur
             /\ j > v.reg.cur => v.g[j] = None /\ v.wire[j] = Quiet
             /\ v.g[j].clean => w.g[j].clean
             /\ Answerable(w.g[j], w.wire[j]) /\ v.g[j].clean => Answerable(v.g[j], v.wire[j])
  <2>1. CASE j = i
    BY SMTT(30), <1>1, <2>1 DEF InOrder
  <2>2. CASE j # i
    <3>1. v.g[j] = w.g[j] /\ v.wire[j] = w.wire[j]
      BY <2>2 DEF Only
    <3> QED
      BY <1>1, <3>1 DEF InOrder
  <2> QED
    BY SMTT(30), <2>1, <2>2
<1> QED
  BY <1>1, <1>2 DEF InOrder, Keeps

LEMMA Registering ==
  ASSUME RegAssumption, RegInv, Register
  PROVE  RegInv'
<1> DEFINE n == reg.cur + 1
           v == IF reg.cur = 0 \/ g[reg.cur].state # "live" THEN World
                ELSE destructor(World, reg.cur)
           failed == IF reg.cur = 0 THEN 0 ELSE g[reg.cur].failc
           o == [None EXCEPT !.state = "live", !.expires = RegInt, !.fbregint = FbRegInt,
                             !.failc = failed]
           p == Put(v, n, o)
           c == [p.reg EXCEPT !.cur = n, !.scode = 0]
           x == [p EXCEPT !.reg = c]
           z == request(x, n, TRUE)
<1>1. /\ InOrder(World) /\ World \in Worlds
      /\ World.g = g /\ World.wire = wire /\ World.reg = reg
  BY DEF RegInv, InOrder, World
<1>2. /\ reg \in Clients /\ reg.cur \in 0..MaxGen /\ reg.cur < MaxGen /\ n \in Gens
      /\ Becomes(z) /\ srv' = srv /\ late' = late
  <2>1. reg \in Clients /\ reg.cur < MaxGen
    BY <1>1 DEF Worlds, Register
  <2>2. reg.cur \in 0..MaxGen /\ n \in Gens
    BY <2>1 DEF Clients, Gens, RegAssumption
  <2>3. Becomes(z) /\ srv' = srv /\ late' = late
    BY Zenon DEF Register
  <2> QED
    BY Zenon, <2>1, <2>2, <2>3
<1>3. /\ InOrder(v) /\ Keeps(World, v) /\ v.reg.cur = reg.cur
      /\ \A j \in Gens : v.g[j].state # "live"
  <2>1. CASE reg.cur = 0 \/ g[reg.cur].state # "live"
    <3>1. v = World
      BY <2>1
    <3> HIDE DEF v
    <3>2. \A j \in Gens : v.g[j].state # "live"
      BY <1>1, <2>1, <3>1 DEF InOrder, Gens
    <3> QED
      BY <1>1, <3>1, <3>2 DEF Keeps
  <2>2. CASE reg.cur # 0 /\ g[reg.cur].state = "live"
    <3> DEFINE k == reg.cur
    <3>1. v = destructor(World, k) /\ k \in Gens
      BY <1>2, <2>2 DEF Gens
    <3>2. ObjectOk(World.g[k], World.wire[k]) /\ World.g[k].state = "live" /\ k <= World.reg.cur
      BY <1>1, <1>2, <2>2, <3>1 DEF InOrder, Gens
    <3> HIDE DEF v
    <3>3. LetGo(World, v, k)
      BY SMTT(30), <1>1, <3>1, <3>2, DestructorDoes
    <3>4. InOrder(v) /\ Keeps(World, v)
      <4>1. /\ Only(World, v, k, v.g[k], v.wire[k]) /\ ObjectOk(v.g[k], v.wire[k])
            /\ v.g[k].state # "live" /\ v.g[k].clean = World.g[k].clean
            /\ Answerable(World.g[k], World.wire[k]) => Answerable(v.g[k], v.wire[k])
        BY <3>3 DEF LetGo
      <4> HIDE DEF k
      <4> QED
        BY SMTT(30), <1>1, <3>1, <3>2, <4>1, OneMoves
    <3>5. v.reg.cur = reg.cur /\ v.g[k].state # "live"
      BY <1>1, <3>3 DEF LetGo, Only
    <3> QED
      BY <3>4, <3>5 DEF InOrder
  <2> QED
    BY <2>1, <2>2
<1>4. /\ o \in Objects /\ o.state = "live" /\ ~o.registered /\ o.clean /\ ~o.req /\ ~o.tmr
  <2>1. failed \in Nat
    <3>1. CASE reg.cur = 0
      BY <3>1
    <3>2. CASE reg.cur # 0
      <4>1. reg.cur \in Gens
        BY <1>2, <3>2 DEF Gens
      <4>2. g[reg.cur] \in Objects
        BY <1>1, <4>1 DEF Worlds
      <4> QED
        BY <3>2, <4>2 DEF Objects
    <3> QED
      BY <3>1, <3>2
  <2> HIDE DEF failed
  <2> QED
    BY Zenon, <2>1 DEF None, Objects, RegAssumption
<1>5. v.g[n] = None /\ v.wire[n] = Quiet /\ v \in Worlds
  BY <1>2, <1>3 DEF InOrder, Gens, Clients
<1> HIDE DEF v, o
<1>6. Only(v, p, n, o, Quiet)
  BY <1>2, <1>4, <1>5, PutDoes
<1> HIDE DEF p
<1>7. p \in Worlds /\ c \in Clients /\ c.cur = n
  <2>1. p \in Worlds /\ p.reg \in Clients
    BY <1>6 DEF Only, Worlds
  <2>2. n \in 0..MaxGen
    BY <1>2 DEF Gens, RegAssumption
  <2> HIDE DEF n
  <2> QED
    BY Zenon, <2>1, <2>2 DEF Clients
<1> HIDE DEF c
<1>8. x \in Worlds /\ x.g = p.g /\ x.wire = p.wire /\ x.reg = c
  BY <1>7 DEF Worlds
<1> HIDE DEF x
<1>9. Only(x, z, n, Asked(o, TRUE), Asking(o))
  <2>1. x.g[n] = o /\ TRUE \in BOOLEAN
    BY <1>6, <1>8 DEF Only
  <2> QED
    BY Zenon, <1>2, <1>8, <2>1, RequestDoes
<1>10. /\ ObjectOk(Asked(o, TRUE), Asking(o)) /\ Asked(o, TRUE).clean
       /\ Asked(o, TRUE).state = "live"
  <2>1. Idle(o, Quiet) /\ TRUE \in BOOLEAN
    BY <1>4 DEF Idle
  <2>2. /\ ObjectOk(Asked(o, TRUE), Asking(o)) /\ Asked(o, TRUE).clean = o.clean
        /\ Moved(o, Asked(o, TRUE))
    BY Zenon, <1>4, <2>1, AskedOk
  <2> QED
    BY Zenon, <1>4, <2>2 DEF Moved
<1> HIDE DEF z
<1>11. /\ z \in Worlds /\ z.reg.cur = n
       /\ z.g[n] = Asked(o, TRUE) /\ z.wire[n] = Asking(o)
       /\ \A j \in Gens : j # n => z.g[j] = v.g[j] /\ z.wire[j] = v.wire[j]
  BY <1>6, <1>7, <1>8, <1>9 DEF Only
<1>12. None.clean /\ ~Answerable(None, Quiet)
  BY DEF None, Quiet, Answerable
<1>13. InOrder(z)
  <2>1. ASSUME NEW j \in Gens
        PROVE  /\ ObjectOk(z.g[j], z.wire[j])
               /\ z.g[j].state = "live" => j = z.reg.cur
               /\ j > z.reg.cur => z.g[j] = None /\ z.wire[j] = Quiet
    <3>1. CASE j = n
      <4>1. ~(n > n)
        BY <1>2 DEF Gens
      <4> QED
        BY ONLY Zenon, <1>10, <1>11, <3>1, <4>1
    <3>2. CASE j # n
      <4>1. z.g[j] = v.g[j] /\ z.wire[j] = v.wire[j]
        BY <1>11, <3>2
      <4>2. j > n => j > reg.cur
        BY <1>2 DEF Gens
      <4> QED
        BY <1>3, <1>11, <4>1, <4>2 DEF InOrder
    <3> QED
      BY <3>1, <3>2
  <2> QED
    BY <1>11, <2>1 DEF InOrder
<1>14. Keeps(World, z)
  <2> SUFFICES ASSUME NEW j \in Gens
               PROVE  /\ z.g[j].clean => World.g[j].clean
                      /\ Answerable(World.g[j], World.wire[j]) /\ z.g[j].clean =>
                           Answerable(z.g[j], z.wire[j])
    BY DEF Keeps
  <2>1. /\ v.g[j].clean => World.g[j].clean
        /\ Answerable(World.g[j], World.wire[j]) /\ v.g[j].clean => Answerable(v.g[j], v.wire[j])
    BY <1>3 DEF Keeps
  <2>2. CASE j = n
    BY <1>5, <1>12, <2>1, <2>2
  <2>3. CASE j # n
    BY <1>11, <2>1, <2>3
  <2> QED
    BY <2>2, <2>3
<1> QED
  BY <1>2, <1>13, <1>14, KeptStep

LEMMA Unregistering ==
  ASSUME RegInv, Unregister
  PROVE  RegInv'
<1> DEFINE k == reg.cur
           v == destructor(World, k)
           c == [v.reg EXCEPT !.scode = 0]
           z == [v EXCEPT !.reg = c]
<1>1. /\ InOrder(World) /\ World \in Worlds
      /\ World.g = g /\ World.wire = wire /\ World.reg = reg
  BY DEF RegInv, InOrder, World
<1>2. k \in Gens /\ g[k].state = "live" /\ Becomes(z) /\ srv' = srv /\ late' = late
  BY <1>1 DEF Unregister, Worlds, Clients, Gens
<1>3. ObjectOk(World.g[k], World.wire[k]) /\ World.g[k].state = "live" /\ k <= World.reg.cur
  BY <1>1, <1>2 DEF InOrder, Gens
<1> HIDE DEF k
<1>4. LetGo(World, v, k)
  BY SMTT(30), <1>1, <1>2, <1>3, DestructorDoes
<1> HIDE DEF v
<1>5. v \in Worlds /\ v.reg \in Clients
  BY <1>4 DEF LetGo, Only, Worlds
<1>6. c \in Clients /\ c.cur = v.reg.cur
  BY <1>5 DEF Clients
<1> HIDE DEF c
<1>7. z \in Worlds /\ z.g = v.g /\ z.wire = v.wire /\ z.reg.cur = v.reg.cur
  BY <1>5, <1>6 DEF Worlds
<1> HIDE DEF z
<1>8. /\ Only(World, z, k, z.g[k], z.wire[k]) /\ ObjectOk(z.g[k], z.wire[k])
      /\ z.g[k].state # "live" /\ z.g[k].clean = World.g[k].clean
      /\ Answerable(World.g[k], World.wire[k]) => Answerable(z.g[k], z.wire[k])
  BY SMTT(30), <1>4, <1>7 DEF LetGo, Only
<1>9. InOrder(z) /\ Keeps(World, z)
  BY ZenonT(30), <1>1, <1>2, <1>3, <1>8, OneMoves
<1> QED
  BY SMTT(30), <1>2, <1>9, KeptStep

(* What the invariant says of an object that has been made.                *)
LEMMA Made ==
  ASSUME RegInv, NEW i \in Gens, g[i] # None \/ wire[i] # Quiet
  PROVE  /\ InOrder(World) /\ World \in Worlds /\ i <= World.reg.cur
         /\ World.g = g /\ World.wire = wire /\ World.reg = reg
         /\ g[i] \in Objects /\ wire[i] \in Messages /\ ObjectOk(g[i], wire[i])
<1>1. /\ InOrder(World) /\ World \in Worlds
      /\ World.g = g /\ World.wire = wire /\ World.reg = reg
  BY DEF RegInv, InOrder, World
<1>2. g[i] \in Objects /\ wire[i] \in Messages /\ reg.cur \in 0..MaxGen
  BY <1>1 DEF Worlds, Clients
<1>3. ObjectOk(g[i], wire[i]) /\ ~(i > reg.cur)
  BY <1>1 DEF InOrder
<1> QED
  BY SMTT(30), <1>1, <1>2, <1>3 DEF Gens

LEMMA TimerFires ==
  ASSUME RegInv, NEW i \in Gens, tmr_handler(i)
  PROVE  RegInv'
<1> DEFINE s == g[i]
           m == wire[i]
           q == [s EXCEPT !.tmr = FALSE]
           u == Put(World, i, q)
           v == request(u, i, TRUE)
<1>1. s.tmr /\ s # None /\ Becomes(v) /\ srv' = srv /\ late' = late
  <2>1. s.tmr /\ Becomes(v) /\ srv' = srv /\ late' = late
    BY Zenon DEF tmr_handler
  <2> HIDE DEF s
  <2>2. s # None
    BY <2>1 DEF None
  <2> QED
    BY Zenon, <2>1, <2>2
<1>2. /\ InOrder(World) /\ World \in Worlds /\ i <= World.reg.cur
      /\ World.g[i] = s /\ World.wire[i] = m
      /\ s \in Objects /\ m \in Messages /\ ObjectOk(s, m)
  BY <1>1, Made
<1> HIDE DEF s, m
<1>3. s.state = "live" /\ ~s.req /\ m.kind = "none"
  BY Zenon, <1>1, <1>2 DEF ObjectOk, Objects, Messages
<1>4. /\ q \in Objects /\ q.tmr = FALSE /\ q.req = s.req /\ q.state = s.state
      /\ q.registered = s.registered /\ q.clean = s.clean
      /\ q.failc = s.failc /\ q.pexpires = s.pexpires /\ q.wait = s.wait
  BY ZenonT(30), <1>2 DEF Objects
<1>5. Idle(q, Quiet) /\ TRUE \in BOOLEAN
  BY <1>3, <1>4 DEF Idle
<1>6. q.registered /\ q.failc = 0 => q.pexpires > 0 /\ q.wait = refresh_wait(q.pexpires)
  BY <1>2, <1>4 DEF ObjectOk
<1> HIDE DEF q
<1>7. Only(World, u, i, q, m)
  BY <1>2, <1>4, PutDoes
<1> HIDE DEF u
<1>8. Only(u, v, i, Asked(q, TRUE), Asking(q))
  <2>1. u \in Worlds /\ u.g[i] = q
    BY <1>7 DEF Only
  <2> QED
    BY Zenon, <1>5, <2>1, RequestDoes
<1>9. /\ ObjectOk(Asked(q, TRUE), Asking(q)) /\ Asked(q, TRUE).clean = q.clean
      /\ q.registered => Answerable(Asked(q, TRUE), Asking(q))
  BY Zenon, <1>4, <1>5, <1>6, AskedOk
<1>10. Answerable(s, m) => q.registered
  BY <1>3, <1>4 DEF Answerable
<1> HIDE DEF v
<1>11. Only(World, v, i, Asked(q, TRUE), Asking(q))
  BY ONLY Zenon, <1>7, <1>8, OnlyTwice
<1>12. v.g[i] = Asked(q, TRUE) /\ v.wire[i] = Asking(q)
  BY <1>11 DEF Only
<1>13. /\ Only(World, v, i, v.g[i], v.wire[i]) /\ ObjectOk(v.g[i], v.wire[i])
       /\ v.g[i].clean => s.clean
       /\ Answerable(s, m) => Answerable(v.g[i], v.wire[i])
  BY ONLY Zenon, <1>4, <1>9, <1>10, <1>11, <1>12
<1>14. InOrder(v) /\ Keeps(World, v)
  BY <1>2, <1>3, <1>13, OneMoves
<1> QED
  BY <1>1, <1>14, KeptStep

LEMMA KeepaliveFails ==
  ASSUME RegInv, NEW i \in Gens, keepalive_handler(i)
  PROVE  RegInv'
<1> DEFINE s == g[i]
           m == wire[i]
           q == [s EXCEPT !.ka = FALSE]
           u == Put(World, i, q)
           f == Failed(u, i)
           t == [f.g[i] EXCEPT !.tmr = TRUE]
           z == resph(Put(f, i, t), i, TRUE, 0)
           v == IF s.req \/ s.state = "ending" THEN u ELSE z
<1>1. s.ka /\ s # None /\ Becomes(v) /\ srv' = srv /\ late' = late
  <2>1. s.ka /\ Becomes(v) /\ srv' = srv /\ late' = late
    BY Zenon DEF keepalive_handler
  <2> HIDE DEF s
  <2>2. s # None
    BY <2>1 DEF None
  <2> QED
    BY Zenon, <2>1, <2>2
<1>2. /\ InOrder(World) /\ World \in Worlds /\ i <= World.reg.cur
      /\ World.g[i] = s /\ World.wire[i] = m
      /\ s \in Objects /\ m \in Messages /\ ObjectOk(s, m)
  BY <1>1, Made
<1> HIDE DEF s, m
<1>3. /\ q \in Objects /\ q.tmr = s.tmr /\ q.req = s.req /\ q.state = s.state
      /\ q.registered = s.registered /\ q.clean = s.clean /\ q.expires = s.expires
      /\ q.failc = s.failc /\ q.pexpires = s.pexpires /\ q.wait = s.wait
      /\ q.fbregint = s.fbregint /\ q.ka = FALSE
  BY Zenon, <1>2 DEF Objects
<1> HIDE DEF q
<1>4. Only(World, u, i, q, m)
  BY <1>2, <1>3, PutDoes
<1>5. u \in Worlds /\ u.g[i] = q /\ u.wire[i] = m
  BY <1>4 DEF Only
<1> HIDE DEF u
<1>6. CASE s.req \/ s.state = "ending"
  <2>1. v = u
    BY Zenon, <1>6
  <2> HIDE DEF v
  <2>2. ObjectOk(q, m) /\ (Answerable(s, m) => Answerable(q, m))
    BY <1>2, <1>3 DEF ObjectOk, Answerable
  <2>3. InOrder(v) /\ Keeps(World, v)
    <3>1. /\ Only(World, v, i, v.g[i], v.wire[i]) /\ ObjectOk(v.g[i], v.wire[i])
          /\ v.g[i].clean = s.clean /\ v.g[i].state = s.state
          /\ Answerable(s, m) => Answerable(v.g[i], v.wire[i])
      BY ONLY <1>3, <1>4, <1>5, <2>1, <2>2
    <3> QED
      BY SMTT(30), <1>2, <3>1, OneMoves
  <2> QED
    BY <1>1, <2>3, KeptStep
<1>7. CASE ~s.req /\ s.state # "ending"
  <2>1. v = z
    BY Zenon, <1>7
  <2> HIDE DEF v
  <2>2. s.state = "live" /\ m.kind = "none"
    BY <1>1, <1>2, <1>7 DEF ObjectOk, Objects, Messages
  <2> DEFINE a == [q EXCEPT !.failc = 1, !.wait = 0]
             b == [a EXCEPT !.tmr = TRUE]
  <2>3. a \in Objects
    BY Zenon, <1>3 DEF Objects
  <2>4. /\ b \in Objects /\ b.tmr = TRUE /\ b.req = q.req /\ b.state = q.state
        /\ b.registered = q.registered /\ b.clean = q.clean /\ b.failc = 1
    BY Zenon, <1>3 DEF Objects
  <2> HIDE DEF a
  <2>5. Only(World, f, i, a, m)
    <3>1. f = Put(u, i, a)
      BY <1>5 DEF Failed, a
    <3>2. Only(u, f, i, a, m)
      BY <1>5, <2>3, <3>1, PutDoes
    <3> HIDE DEF f
    <3> QED
      BY ONLY <1>4, <3>2, OnlyTwice
  <2>6. f \in Worlds /\ f.g[i] = a /\ f.wire[i] = m
    BY <2>5 DEF Only
  <2>7. t = b
    BY <2>6
  <2> HIDE DEF f, b, t
  <2>8. Only(f, Put(f, i, t), i, b, m)
    BY <2>4, <2>6, <2>7, PutDoes
  <2>9. Put(f, i, t) \in Worlds /\ Put(f, i, t).g[i] = b /\ Put(f, i, t).wire[i] = m
    BY <2>8 DEF Only
  <2>10. Only(Put(f, i, t), z, i, b, m)
    <3>1. TRUE \in BOOLEAN /\ 0 \in Nat
      OBVIOUS
    <3> QED
      BY ZenonT(30), <2>9, <3>1, RespDoes
  <2> HIDE DEF z
  <2>11. Only(World, v, i, b, m)
    BY ONLY <2>1, <2>5, <2>8, <2>10, OnlyTwice
  <2>12. ObjectOk(b, m) /\ (Answerable(s, m) => Answerable(b, m))
    BY <1>2, <1>3, <1>7, <2>2, <2>4 DEF ObjectOk, Answerable
  <2>13. v.g[i] = b /\ v.wire[i] = m
    BY <2>11 DEF Only
  <2>14. InOrder(v) /\ Keeps(World, v)
    <3>1. /\ Only(World, v, i, v.g[i], v.wire[i]) /\ ObjectOk(v.g[i], v.wire[i])
          /\ v.g[i].clean = s.clean /\ v.g[i].state = s.state
          /\ Answerable(s, m) => Answerable(v.g[i], v.wire[i])
      BY ONLY SMTT(30), <1>3, <2>4, <2>11, <2>12, <2>13
    <3> QED
      BY <1>2, <3>1, OneMoves
  <2> QED
    BY <1>1, <2>14, KeptStep
<1> QED
  BY <1>6, <1>7

LEMMA Serving ==
  ASSUME RegAssumption, RegInv, NEW i \in Gens, Serve(i)
  PROVE  RegInv'
<1>1. PICK code \in Codes, n \in Granted :
        /\ code = 423 => MinExp > wire[i].exp /\ wire[i].exp > 0
        /\ wire' = [wire EXCEPT ![i] = Answered(i, wire[i].exp, code, n)]
        /\ srv' = IF code = 200 THEN [bound |-> wire'[i].wait > 0] ELSE srv
  BY Zenon DEF Serve
<1>2. g' = g /\ reg' = reg /\ late' = late /\ wire[i].kind = "request"
  BY DEF Serve
<1> DEFINE s == g[i]
           m == wire[i]
           a == Answered(i, m.exp, code, n)
<1>3. /\ InOrder(World) /\ World \in Worlds /\ i <= World.reg.cur
      /\ World.g = g /\ World.wire = wire /\ World.reg = reg
      /\ s \in Objects /\ m \in Messages /\ ObjectOk(s, m)
  <2>1. wire[i] # Quiet
    BY <1>2 DEF Quiet
  <2> QED
    BY <2>1, Made
<1>4. /\ a \in Messages /\ a.kind = "answer" /\ a.exp = m.exp /\ a.wait <= a.exp
      /\ a.scode = code
  <2> HIDE DEF m
  <2> QED
    BY <1>3 DEF Messages, RegAssumption, Answered, Least
<1>5. wire \in [Gens -> Messages] /\ wire'[i] = a /\ \A j \in Gens : j # i => wire'[j] = wire[j]
  BY SMTT(30), <1>1, <1>3 DEF Worlds
<1>6. World' \in Worlds /\ World'.g = g /\ World'.wire = wire' /\ World'.reg = reg
  <2> HIDE DEF a
  <2>1. wire' \in [Gens -> Messages]
    BY SMTT(30), <1>1, <1>4, <1>5 DEF a, m
  <2> QED
    BY <1>2, <1>3, <2>1 DEF World, Worlds
<1> HIDE DEF a, m, s
<1>7. ObjectOk(s, a)
  BY <1>2, <1>3, <1>4 DEF ObjectOk, m
<1>8. InOrder(World)'
  <2>1. ASSUME NEW j \in Gens
        PROVE  /\ ObjectOk(g[j], wire'[j])
               /\ g[j].state = "live" => j = reg.cur
               /\ j > reg.cur => g[j] = None /\ wire'[j] = Quiet
    <3>1. CASE j = i
      <4>1. ~(i > reg.cur)
        BY <1>3 DEF Worlds, Clients, Gens
      <4> QED
        BY <1>3, <1>5, <1>7, <3>1, <4>1 DEF InOrder, s
    <3>2. CASE j # i
      BY SMTT(30), <1>3, <1>5, <3>2 DEF InOrder
    <3> QED
      BY SMTT(30), <3>1, <3>2
  <2> QED
    BY <1>2, <1>6, <2>1 DEF InOrder
<1>9. late' # <<>> => \E j \in Gens : ~g'[j].clean
  BY <1>2 DEF RegInv
<1>10. /\ srv' \in [bound : BOOLEAN]
       /\ srv'.bound => (code = 200 /\ a.wait > 0) \/ (code # 200 /\ srv.bound)
  <2>1. CASE code = 200
    <3> DEFINE b == a.wait > 0
    <3>1. srv' = [bound |-> b] /\ b \in BOOLEAN
      BY <1>1, <1>5, <2>1
    <3> HIDE DEF b
    <3>2. srv' \in [bound : BOOLEAN] /\ (srv'.bound => b)
      BY <3>1
    <3> QED
      BY <2>1, <3>2 DEF b
  <2>2. CASE code # 200
    BY SMTT(30), <1>1, <2>2 DEF RegInv
  <2> QED
    BY <2>1, <2>2
<1>11. srv'.bound => \E j \in Gens : Answerable(g'[j], wire'[j]) \/ ~g'[j].clean
  <2>1. CASE code = 200 /\ a.wait > 0
    <3>1. Answerable(g'[i], wire'[i])
      BY SMTT(30), <1>4, <1>5, <2>1 DEF Answerable
    <3> QED
      BY SMTT(30), <3>1
  <2>2. CASE code # 200 /\ srv.bound
    <3>1. PICK j \in Gens : Answerable(g[j], wire[j]) \/ ~g[j].clean
      BY <2>2 DEF RegInv
    <3>2. Answerable(g[j], wire[j]) => Answerable(g[j], wire'[j])
      <4>1. CASE j = i
        BY <1>2, <1>4, <1>5, <2>2, <4>1 DEF Answerable
      <4>2. CASE j # i
        BY <1>5, <4>2
      <4> QED
        BY SMTT(30), <4>1, <4>2
    <3>3. Answerable(g'[j], wire'[j]) \/ ~g'[j].clean
      BY SMTT(30), <1>2, <3>1, <3>2
    <3> QED
      BY <3>3
  <2> QED
    BY SMTT(30), <1>10, <2>1, <2>2
<1> QED
  BY SMTT(30), <1>8, <1>9, <1>10, <1>11 DEF RegInv

LEMMA Answering ==
  ASSUME RegAssumption, RegInv, NEW i \in Gens, Answer(i)
  PROVE  RegInv'
<1>1. PICK cred \in BOOLEAN :
        Becomes(response_handler(World, i, FALSE, wire[i].scode, wire[i].wait, cred))
  BY Zenon DEF Answer
<1>2. srv' = srv /\ late' = late /\ wire[i].kind = "answer"
  BY DEF Answer
<1> DEFINE v == response_handler(World, i, FALSE, wire[i].scode, wire[i].wait, cred)
<1>3. /\ InOrder(World) /\ World \in Worlds /\ i <= World.reg.cur
      /\ World.g = g /\ World.wire = wire
      /\ g[i] \in Objects /\ wire[i] \in Messages /\ ObjectOk(g[i], wire[i])
  <2>1. wire[i] # Quiet
    BY SMTT(30), <1>2 DEF Quiet
  <2> QED
    BY <2>1, Made
<1>4. wire[i].scode \in Nat /\ wire[i].wait \in Nat /\ g[i].req
  BY SMTT(30), <1>2, <1>3 DEF Messages, ObjectOk
<1>5. Responded(World, v, i, FALSE)
  BY ZenonT(30), <1>2, <1>3, <1>4, ResponseDoes
<1> HIDE DEF v
<1>6. /\ Only(World, v, i, v.g[i], v.wire[i]) /\ ObjectOk(v.g[i], v.wire[i])
      /\ v.g[i].clean => World.g[i].clean
      /\ v.g[i].state = "live" => World.g[i].state = "live"
      /\ Answerable(World.g[i], World.wire[i]) /\ v.g[i].clean =>
           Answerable(v.g[i], v.wire[i])
  BY <1>5 DEF Responded, Moved
<1>7. InOrder(v) /\ Keeps(World, v)
  BY <1>3, <1>6, OneMoves
<1> QED
  BY Zenon, <1>1, <1>2, <1>7, KeptStep DEF v

LEMMA GivingUp ==
  ASSUME RegAssumption, RegInv, NEW i \in Gens, GiveUp(i)
  PROVE  RegInv'
<1> DEFINE v == response_handler(World, i, TRUE, 0, 0, FALSE)
<1>1. srv' = srv /\ wire[i].kind # "none" /\ Becomes(v)
  BY ZenonT(30) DEF GiveUp
<1>2. /\ InOrder(World) /\ World \in Worlds /\ i <= World.reg.cur
      /\ World.g = g /\ World.wire = wire
      /\ g[i] \in Objects /\ wire[i] \in Messages /\ ObjectOk(g[i], wire[i])
  <2>1. wire[i] # Quiet
    BY <1>1 DEF Quiet
  <2> QED
    BY <2>1, Made
<1>3. g[i].req /\ TRUE \in BOOLEAN /\ FALSE \in BOOLEAN /\ 0 \in Nat
  BY <1>1, <1>2 DEF ObjectOk
<1>4. Responded(World, v, i, TRUE)
  BY ZenonT(30), <1>2, <1>3, ResponseDoes
<1> HIDE DEF v
<1>5. /\ Only(World, v, i, v.g[i], v.wire[i]) /\ ObjectOk(v.g[i], v.wire[i])
      /\ v.g[i].clean => World.g[i].clean
      /\ v.g[i].state = "live" => World.g[i].state = "live"
      /\ Answerable(World.g[i], World.wire[i]) /\ v.g[i].clean =>
           Answerable(v.g[i], v.wire[i])
      /\ ~v.g[i].clean
  BY <1>4 DEF Responded, Moved
<1>6. InOrder(v) /\ Keeps(World, v)
  BY <1>2, <1>5, OneMoves
<1> QED
  BY SMTT(30), <1>1, <1>5, <1>6, KeptStep

LEMMA Arriving ==
  ASSUME RegInv, Arrive
  PROVE  RegInv'
<1>1. g' = g /\ wire' = wire /\ reg' = reg /\ late # <<>> /\ late' = <<>>
  BY DEF Arrive
<1>2. srv' \in [bound : BOOLEAN]
  BY SMTT(30) DEF Arrive
<1>3. InOrder(World)'
  BY SMTT(30), <1>1 DEF RegInv, InOrder, World
<1>4. PICK j \in Gens : ~g[j].clean
  BY <1>1 DEF RegInv
<1>5. \E i \in Gens : Answerable(g'[i], wire'[i]) \/ ~g'[i].clean
  BY <1>1, <1>4
<1> QED
  BY <1>1, <1>2, <1>3, <1>5 DEF RegInv

(***************************************************************************)
(* The invariant holds from the start and every step keeps it: each way of *)
(* an object through sipreg_register, response_handler, tmr_handler,       *)
(* keepalive_handler and destructor leaves all objects in order.           *)
(***************************************************************************)
THEOREM RegInvariant == RegAssumption => (Spec => []RegInv)
<1> SUFFICES ASSUME RegAssumption PROVE Spec => []RegInv
  OBVIOUS
<1>1. Init => RegInv
  <2> SUFFICES ASSUME Init PROVE RegInv
    BY SMTT(30)
  <2>1. None \in Objects /\ Quiet \in Messages
    BY SMTT(30) DEF None, Objects, Quiet, Messages
  <2>2. ObjectOk(None, Quiet) /\ None.state # "live"
    BY DEF ObjectOk, None, Quiet
  <2>3. reg \in Clients
    BY SMTT(30) DEF Init, Clients, RegAssumption
  <2>4. World \in Worlds /\ World.g = g /\ World.wire = wire
    BY <2>1, <2>3 DEF World, Worlds, Init
  <2>5. \A i \in Gens : g[i] = None /\ wire[i] = Quiet
    BY DEF Init
  <2>6. InOrder(World)
    BY <2>2, <2>4, <2>5 DEF InOrder
  <2>7. srv \in [bound : BOOLEAN] /\ ~srv.bound /\ late = <<>>
    BY DEF Init
  <2> QED
    BY <2>6, <2>7 DEF RegInv
<1>2. RegInv /\ [Next]_vars => RegInv'
  <2> SUFFICES ASSUME RegInv, [Next]_vars PROVE RegInv'
    OBVIOUS
  <2>1. CASE Register
    BY <2>1, Registering
  <2>2. CASE Unregister
    BY <2>2, Unregistering
  <2>3. CASE Arrive
    BY <2>3, Arriving
  <2>4. ASSUME NEW i \in Gens,
               tmr_handler(i) \/ keepalive_handler(i) \/ Serve(i) \/ Answer(i) \/ GiveUp(i)
        PROVE  RegInv'
    BY SMTT(30), <2>4, TimerFires, KeepaliveFails, Serving, Answering, GivingUp
  <2>5. CASE UNCHANGED vars
    BY <2>5 DEF vars, RegInv, InOrder, World
  <2> QED
    BY <2>1, <2>2, <2>3, <2>4, <2>5 DEF Next
<1> QED
  BY <1>1, <1>2, PTL DEF Spec

(***************************************************************************)
(* Whatever the answers, losses and timers: an object waits for exactly    *)
(* one thing, an answer or its timer (response_handler, destructor,        *)
(* keepalive_handler of re/src/sipreg/reg.c).                              *)
(***************************************************************************)
THEOREM NeverStuck == RegAssumption => (Spec => []WaitsForOne)
<1>1. RegInv => WaitsForOne
  <2> SUFFICES ASSUME RegInv, NEW i \in Gens
               PROVE  ObjectOk(g[i], wire[i])
    BY DEF WaitsForOne, ObjectOk
  <2> QED
    BY SMTT(30) DEF RegInv, InOrder, World
<1> QED
  BY <1>1, RegInvariant, PTL

(***************************************************************************)
(* For every interval that is granted, every rwait that sipreg_set_rwait   *)
(* admits and every width of the timer's integer: a registration is        *)
(* refreshed before the server forgets it (response_handler).              *)
(***************************************************************************)
THEOREM RefreshedInTime == RegAssumption => (Spec => []RefreshInTime)
<1> SUFFICES ASSUME RegAssumption PROVE Spec => []RefreshInTime
  OBVIOUS
<1>1. ASSUME NEW p \in Nat, p > 0
      PROVE  refresh_wait(p) < p * 1000
  <2> DEFINE t == p * (RWait * 10)
  <2>1. t \in Nat /\ t < p * 1000
    <3>1. RWait \in Nat /\ RWait * 10 <= 950
      BY DEF RegAssumption
    <3>2. p * (RWait * 10) <= p * 950
      BY <3>1
    <3> QED
      BY <1>1, <3>1, <3>2
  <2> HIDE DEF t
  <2>2. t % Modulus <= t
    BY <2>1 DEF RegAssumption
  <2> QED
    BY <2>1, <2>2 DEF refresh_wait, t, RegAssumption
<1>2. RegInv => RefreshInTime
  <2> SUFFICES ASSUME RegInv, NEW i \in Gens, g[i].registered, g[i].failc = 0
               PROVE  g[i].wait < g[i].pexpires * 1000
    BY SMTT(30) DEF RefreshInTime
  <2>1. g[i] \in Objects /\ ObjectOk(g[i], wire[i])
    BY SMTT(30) DEF RegInv, InOrder, World, Worlds
  <2>2. g[i].pexpires \in Nat /\ g[i].pexpires > 0 /\ g[i].wait = refresh_wait(g[i].pexpires)
    BY <2>1 DEF ObjectOk, Objects
  <2> QED
    BY <1>1, <2>2
<1> QED
  BY <1>2, RegInvariant, PTL

(***************************************************************************)
(* Of any number of registrations that overlapped, none leaves a binding   *)
(* at the server when all have ended without a lost request or a refused   *)
(* unregistration (destructor, response_handler).                          *)
(***************************************************************************)
THEOREM NoBindingLeft == RegAssumption => (Spec => []NothingLeft)
<1>1. RegInv => NothingLeft
  <2> SUFFICES ASSUME RegInv, srv.bound,
                      \A i \in Gens : g[i].state \in {"none", "freed"} /\ g[i].clean
               PROVE  FALSE
    BY DEF NothingLeft
  <2>1. PICK i \in Gens : Answerable(g[i], wire[i]) \/ ~g[i].clean
    BY SMTT(30) DEF RegInv
  <2>2. ObjectOk(g[i], wire[i]) /\ wire[i] \in Messages
    BY SMTT(30) DEF RegInv, InOrder, World, Worlds
  <2>3. ~Answerable(g[i], wire[i])
    BY <2>2 DEF ObjectOk, Answerable, Messages
  <2> QED
    BY <2>1, <2>3
<1> QED
  BY <1>1, RegInvariant, PTL

(***************************************************************************)
(* All of it together, for every number of registrations that follow one   *)
(* another, every interval and every fallback interval: a registration     *)
(* waits for one thing, is refreshed in time, and leaves no binding behind *)
(* (reg.c of libre).                                                       *)
(***************************************************************************)
THEOREM RegistrationKept == RegAssumption => (Spec => []RegKept)
<1>1. RegInv /\ WaitsForOne /\ RefreshInTime /\ NothingLeft => RegKept
  BY DEF RegKept
<1> QED
  BY <1>1, RegInvariant, NeverStuck, RefreshedInTime, NoBindingLeft, PTL

=============================================================================
