------------------------------- MODULE SipReg -------------------------------
(***************************************************************************)
(* The registration of a user agent: the register client of baresip        *)
(* (baresip/src/reg.c) and the registration objects of libre it makes one  *)
(* after the other (re/src/sipreg/reg.c).  An object that is let go lives  *)
(* on until the server has been told, while its successor registers the    *)
(* same contact.  The server accepts, challenges, asks for a longer        *)
(* interval or refuses; a request may be given up before it, or its        *)
(* answer, arrives.  Times are in the units of the code: intervals in      *)
(* seconds, timers in milliseconds, 32 bits wide (Modulus).                *)
(***************************************************************************)
EXTENDS Naturals, FiniteSets

CONSTANTS MaxGen,    \* registration objects made
          RegInt,    \* the interval asked for; 0 is a fallback check
          Granted,   \* intervals the server may grant at most
          MinExp,    \* the server's minimum, 0 for none
          FbRegInt,  \* interval of fallback checks, 0 for none
          RWait,     \* refresh after this share of the interval: 90 by default
          Modulus,   \* 2^32 in the code
          MaxLoops,  \* answers before a request is taken to loop: 16
          MaxLate,   \* requests given up that may still reach the server
          Codes      \* what the server may answer

Gens == 1..MaxGen

VARIABLES g,      \* the registration objects
          reg,    \* the register client: its object, status, events
          srv,    \* the server: whether the contact is bound
          wire,   \* per object: the request or the answer under way
          late    \* requests that were given up and may still arrive

vars == <<g, reg, srv, wire, late>>

\* state: none, live, ending (let go, still at work) or freed.
None == [state |-> "none", expires |-> 0, pexpires |-> 0, wait |-> 0, registered |-> FALSE,
         req |-> FALSE, tmr |-> FALSE, fbregint |-> 0, failc |-> 0, ka |-> FALSE,
         loops |-> 0, last |-> 0, clean |-> TRUE]

Quiet == [kind |-> "none", exp |-> 0, scode |-> 0, wait |-> 0]

Init == /\ g = [i \in Gens |-> None]
        /\ reg = [cur |-> 0, scode |-> 0, told |-> "none"]
        /\ srv = [bound |-> FALSE]
        /\ wire = [i \in Gens |-> Quiet]
        /\ late = <<>>

World == [g |-> g, reg |-> reg, wire |-> wire]
Becomes(w) == g' = w.g /\ reg' = w.reg /\ wire' = w.wire

\* Object i is now s, and m is what it has under way.
With(w, i, s, m) == [w EXCEPT !.g[i] = s, !.wire[i] = m]
Put(w, i, s) == With(w, i, s, w.wire[i])

-----------------------------------------------------------------------------

\* A REGISTER; after the release it is one with expires 0.
request(w, i, reset) ==
  LET s == w.g[i]
      e == IF s.state = "ending" THEN 0 ELSE s.expires
  IN  With(w, i, [s EXCEPT !.expires = e, !.req = TRUE, !.loops = IF reset THEN 0 ELSE @,
                           !.last = IF reset THEN 0 ELSE @],
           [kind |-> "request", exp |-> e, scode |-> 0, wait |-> 0])

Freed(w, i) == Put(w, i, [None EXCEPT !.state = "freed", !.clean = w.g[i].clean])

\* Mutant: an object let go is freed under its request.
destructor_Now(w, i) ==
  LET v == Put(w, i, [w.g[i] EXCEPT !.state = "ending", !.tmr = FALSE]) IN
  IF ~w.g[i].req /\ w.g[i].registered THEN request(v, i, TRUE) ELSE Freed(v, i)
destructor(w, i) ==
  LET v == Put(w, i, [w.g[i] EXCEPT !.state = "ending", !.tmr = FALSE]) IN
  IF w.g[i].req THEN v
  ELSE IF w.g[i].registered THEN request(v, i, TRUE)
  ELSE Freed(v, i)

\* register_handler of baresip: what the user agent is told.
resph(w, i, err, scode) ==
  IF w.g[i].state # "live" THEN w
  ELSE [w EXCEPT !.reg = [@ EXCEPT !.scode = IF err THEN 999 ELSE scode,
                                   !.told = IF ~err /\ scode = 200 THEN "ok" ELSE "fail"]]

\* The refresh after a success, in 32 bits.
refresh_wait(pexpires) == (pexpires * (RWait * 10)) % Modulus

\* sip_request_loops.
loops(s, scode) ==
  CASE scode = 200 -> [s EXCEPT !.loops = 0, !.last = scode]
    [] OTHER -> [s EXCEPT !.loops = @ + 1, !.last = scode]
is_loop(s, scode) ==
  /\ scode # 200
  /\ \/ s.loops + 1 >= MaxLoops
     \/ scode # 401 /\ s.last = scode

\* The end of response_handler: the next timer, the unregistration, or the end.
finish(x, i, err, scode) ==
  LET s  == [x.g[i] EXCEPT !.loops = 0, !.last = 0] \* reset by the next request
      w  == Put(x, i, s)
      fb == IF scode \in 400..499 THEN 0 ELSE s.fbregint
  IN CASE s.expires = 0 /\ s.state = "ending" -> Freed(w, i)
       [] s.expires = 0 /\ s.state = "live" /\ fb # 0 ->
            resph(Put(x, i, [s EXCEPT !.tmr = TRUE]), i, err, scode)
       [] s.expires = 0 /\ s.state = "live" /\ fb = 0 -> Put(x, i, [s EXCEPT !.fbregint = 0])
       [] s.expires # 0 /\ s.state = "ending" ->
            IF s.registered THEN request(w, i, TRUE) ELSE Freed(w, i)
       [] OTHER -> resph(Put(x, i, [s EXCEPT !.tmr = TRUE]), i, err, scode)

\* A success: the interval granted for the contact.
accepted(w, i, granted) ==
  Put(w, i, [w.g[i] EXCEPT !.registered = granted > 0, !.pexpires = granted,
                           !.wait = refresh_wait(granted), !.failc = 0,
                           !.ka = @ \/ w.g[i].state = "live"])

\* A failure: failwait picks 15 s to 30 min, which no property tells apart.
Failed(w, i) == Put(w, i, [w.g[i] EXCEPT !.failc = 1, !.wait = 0])

\* response_handler.  cred: the user has credentials for the challenge.  clean
\* records that no request was given up and no unregistration refused.
response_handler(w, i, err, scode, granted, cred) ==
  LET s == w.g[i]
      refused == s.expires = 0 /\ scode # 200 /\ (is_loop(s, scode) \/ scode # 401 \/ ~cred)
      v == With(w, i, [loops(s, scode) EXCEPT !.req = FALSE, !.clean = @ /\ ~err /\ ~refused],
                Quiet)
  IN CASE err -> finish(Failed(v, i), i, TRUE, 0)
       [] ~err /\ is_loop(s, scode) -> finish(Failed(v, i), i, FALSE, scode)
       [] ~err /\ ~is_loop(s, scode) /\ scode = 200 ->
            finish(accepted(v, i, granted), i, FALSE, scode)
       [] ~err /\ ~is_loop(s, scode) /\ scode # 200 ->
            IF s.state = "ending" /\ ~s.registered THEN finish(v, i, FALSE, scode)
            ELSE IF scode = 401 /\ cred THEN request(v, i, FALSE)
            ELSE IF scode = 423 /\ s.expires # 0
            THEN request(Put(v, i, [v.g[i] EXCEPT !.expires = MinExp]), i, FALSE)
            ELSE finish(Failed(v, i), i, FALSE, scode)

-----------------------------------------------------------------------------

\* reg_register: the old object is let go and a new one made.
Register ==
  /\ reg.cur < MaxGen
  /\ LET n == reg.cur + 1
         v == IF reg.cur = 0 \/ g[reg.cur].state # "live" THEN World
              ELSE destructor(World, reg.cur)
         failed == IF reg.cur = 0 THEN 0 ELSE g[reg.cur].failc
         o == [None EXCEPT !.state = "live", !.expires = RegInt, !.fbregint = FbRegInt,
                           !.failc = failed]
     IN Becomes(request([Put(v, n, o) EXCEPT !.reg = [@ EXCEPT !.cur = n, !.scode = 0]], n, TRUE))
  /\ UNCHANGED <<srv, late>>

\* reg_unregister.
Unregister ==
  /\ reg.cur # 0 /\ g[reg.cur].state = "live"
  /\ Becomes([destructor(World, reg.cur) EXCEPT !.reg = [@ EXCEPT !.scode = 0]])
  /\ UNCHANGED <<srv, late>>

\* Mutant: a registration is not refreshed.
tmr_handler_Off(i) ==
  /\ g[i].tmr
  /\ Becomes(Put(World, i, [g[i] EXCEPT !.tmr = FALSE]))
  /\ UNCHANGED <<srv, late>>
tmr_handler(i) ==
  /\ g[i].tmr
  /\ Becomes(request(Put(World, i, [g[i] EXCEPT !.tmr = FALSE]), i, TRUE))
  /\ UNCHANGED <<srv, late>>

\* The connection kept alive for outbound has failed.
keepalive_handler(i) ==
  /\ g[i].ka
  /\ LET v == Put(World, i, [g[i] EXCEPT !.ka = FALSE])
         f == Failed(v, i)
     IN  Becomes(IF g[i].req \/ g[i].state = "ending" THEN v
                 ELSE resph(Put(f, i, [f.g[i] EXCEPT !.tmr = TRUE]), i, TRUE, 0))
  /\ UNCHANGED <<srv, late>>

Least(a, b) == IF a < b THEN a ELSE b

\* The server acts on a request for exp seconds and grants at most m of them.
Answered(i, exp, code, m) ==
  [kind |-> "answer", exp |-> exp, scode |-> code,
   wait |-> IF code = 200 THEN Least(exp, m) ELSE 0]

Serve(i) ==
  /\ wire[i].kind = "request"
  /\ \E code \in Codes, m \in Granted :
       /\ code = 423 => MinExp > wire[i].exp /\ wire[i].exp > 0
       /\ wire' = [wire EXCEPT ![i] = Answered(i, wire[i].exp, code, m)]
       /\ srv' = IF code = 200 THEN [bound |-> wire'[i].wait > 0] ELSE srv
  /\ UNCHANGED <<g, reg, late>>

Answer(i) ==
  /\ wire[i].kind = "answer"
  /\ \E cred \in BOOLEAN :
       Becomes(response_handler(World, i, FALSE, wire[i].scode, wire[i].wait, cred))
  /\ UNCHANGED <<srv, late>>

\* The transaction times out or cannot be sent; the request may arrive later.
GiveUp(i) ==
  /\ wire[i].kind # "none"
  /\ MaxLate > 0
  /\ Becomes(response_handler(World, i, TRUE, 0, 0, FALSE))
  /\ late' = IF wire[i].kind = "request" /\ late = <<>> THEN <<wire[i].exp>> ELSE late
  /\ UNCHANGED srv

Arrive ==
  /\ late # <<>>
  /\ srv' = [bound |-> late[1] > 0]
  /\ late' = <<>>
  /\ UNCHANGED <<g, reg, wire>>

Next == \/ Register \/ Unregister \/ Arrive
        \/ \E i \in Gens : tmr_handler(i) \/ keepalive_handler(i) \/ Serve(i) \/ Answer(i)
                           \/ GiveUp(i)

Spec == Init /\ [][Next]_vars

(* Timers fire; the server or the transaction layer answers each request.  *)
FairSpec == Spec /\ \A i \in Gens : /\ WF_vars(tmr_handler(i)) /\ WF_vars(Answer(i))
                                    /\ WF_vars(Serve(i))

-----------------------------------------------------------------------------

TypeOK == /\ \A i \in Gens : /\ g[i].state \in {"none", "live", "ending", "freed"}
                             /\ g[i].wait \in 0..(Modulus - 1)
                             /\ wire[i].kind \in {"none", "request", "answer"}
          /\ reg.cur \in 0..MaxGen

(* A registration that is alive waits for exactly one thing, an answer or  *)
(* its timer, unless it is a fallback check that has been given up; one    *)
(* that was let go waits for an answer (response_handler, destructor,      *)
(* keepalive_handler).                                                     *)
WaitsForOne ==
  \A i \in Gens :
    /\ g[i].req <=> wire[i].kind # "none"
    /\ g[i].state = "live" =>
         IF g[i].expires = 0 /\ g[i].fbregint = 0 THEN ~(g[i].req /\ g[i].tmr)
         ELSE g[i].req # g[i].tmr
    /\ g[i].state = "ending" => g[i].req /\ ~g[i].tmr
    /\ g[i].state \in {"none", "freed"} => ~g[i].req /\ ~g[i].tmr

(* The refresh comes before the server forgets the contact                 *)
(* (contact_handler, response_handler).                                    *)
RefreshInTime ==
  \A i \in Gens : (g[i].state = "live" /\ g[i].tmr /\ g[i].registered /\ g[i].failc = 0) =>
                     g[i].wait < g[i].pexpires * 1000

(* The refresh is at RWait percent of the interval the server granted      *)
(* (sipreg_set_rwait: "Set the relative registration interval in percent   *)
(* from proxy expiry time").                                               *)
RelativeInterval ==
  \A i \in Gens : (g[i].state = "live" /\ g[i].tmr /\ g[i].registered /\ g[i].failc = 0) =>
                     g[i].wait = g[i].pexpires * RWait * 10

(* When everything has been let go and has ended without a lost request or *)
(* a refused unregistration, the server has no binding left (destructor,   *)
(* response_handler).                                                      *)
NothingLeft ==
  (/\ reg.cur # 0
   /\ \A i \in Gens : g[i].state \in {"none", "freed"} /\ g[i].clean
   /\ late = <<>>) => ~srv.bound

(* An object that was let go ends.                                         *)
EndingEnds == \A i \in Gens : g[i].state = "ending" ~> g[i].state = "freed"

(* A registration that stays is bound again and again, although the one    *)
(* before it may unregister the same contact after it has registered       *)
(* (destructor, tmr_handler).                                              *)
BoundAgain == \A i \in Gens : []<>(g[i].state = "live" => srv.bound)

-----------------------------------------------------------------------------

(* What the proofs take of the constants: rwait is 90 or what              *)
(* sipreg_set_rwait lets through; the rest are unsigned integers.          *)
RegAssumption ==
  /\ MaxGen \in Nat /\ RWait \in 5..95 /\ Modulus \in Nat \ {0}
  /\ RegInt \in Nat /\ MinExp \in Nat /\ FbRegInt \in Nat /\ MaxLoops \in Nat
  /\ Granted \subseteq Nat /\ Codes \subseteq Nat

Objects ==
  [state : {"none", "live", "ending", "freed"}, expires : Nat, pexpires : Nat, wait : Nat,
   registered : BOOLEAN, req : BOOLEAN, tmr : BOOLEAN, fbregint : Nat, failc : Nat,
   ka : BOOLEAN, loops : Nat, last : Nat, clean : BOOLEAN]
Messages == [kind : {"none", "request", "answer"}, exp : Nat, scode : Nat, wait : Nat]
Clients == [cur : 0..MaxGen, scode : Nat, told : {"none", "ok", "fail"}]
Worlds == [g : [Gens -> Objects], reg : Clients, wire : [Gens -> Messages]]

(* An object s and what it has under way, m: it waits for one thing, knows *)
(* what it asked for, and has the time of its refresh from the interval    *)
(* that it was granted last.                                               *)
ObjectOk(s, m) ==
  /\ s.req <=> m.kind # "none"
  /\ s.state = "live" =>
       IF s.expires = 0 /\ s.fbregint = 0 THEN ~(s.req /\ s.tmr) ELSE s.req # s.tmr
  /\ s.state = "ending" => s.req /\ ~s.tmr
  /\ s.state \in {"none", "freed"} => ~s.req /\ ~s.tmr /\ ~s.registered /\ ~s.ka
  /\ m.kind # "none" => m.exp = s.expires
  /\ m.kind = "answer" => m.wait <= m.exp
  /\ s.registered /\ s.failc = 0 => s.pexpires > 0 /\ s.wait = refresh_wait(s.pexpires)

(* The object knows that the contact is bound, or is about to learn it.    *)
Answerable(s, m) ==
  \/ s.registered /\ ~(m.kind = "answer" /\ m.scode = 200 /\ m.wait = 0)
  \/ m.kind = "answer" /\ m.scode = 200 /\ m.wait > 0

InOrder(w) ==
  /\ w \in Worlds
  /\ \A i \in Gens : /\ ObjectOk(w.g[i], w.wire[i])
                     /\ w.g[i].state = "live" => i = w.reg.cur
                     /\ i > w.reg.cur => w.g[i] = None /\ w.wire[i] = Quiet

(* The inductive invariant of registration: only the client's current      *)
(* object is alive, every object is in order, and a binding at the server  *)
(* is one that some object will take back unless a request of it was given *)
(* up or refused (reg.c of libre).                                         *)
RegInv ==
  /\ InOrder(World) /\ srv \in [bound : BOOLEAN]
  /\ late # <<>> => \E i \in Gens : ~g[i].clean
  /\ srv.bound => \E i \in Gens : Answerable(g[i], wire[i]) \/ ~g[i].clean

(* What holds of registration at all times (reg.c of libre).               *)
RegKept == RegInv /\ WaitsForOne /\ RefreshInTime /\ NothingLeft
=============================================================================
