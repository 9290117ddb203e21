-------------------------------- MODULE Turn --------------------------------
(***************************************************************************)
(* A TURN client of libre (re/src/turn) and the TURN server it talks to    *)
(* (restund: the handler chain drain, auth, turn).  The client keeps one   *)
(* allocation, and a permission or a channel for every peer; each of them  *)
(* has its own STUN transaction, refresh timer and loop state, and all of  *)
(* them share one nonce.  The server forgets what is not refreshed.        *)
(*                                                                         *)
(* Time passes in units; a transaction, with its retransmissions, ends     *)
(* within one unit (50 s is such a unit: a transaction gives up after      *)
(* 39.5 s), a packet lives much shorter.  Deadlines are kept as the time   *)
(* left.  A nonce is represented by the time it still has: the server puts *)
(* its issue time in it, and a restart makes every nonce bad by changing   *)
(* the secret.                                                             *)
(***************************************************************************)
EXTENDS Integers, FiniteSets

CONSTANTS Peers,        \* the peers behind the relay
          None,
          DEFAULT,      \* TURN_DEFAULT_LIFETIME, which every client asks for
          lifetime_max, \* turn_max_lifetime of the server's configuration
          PERM_LIFETIME, PERM_REFRESH, CHAN_LIFETIME, CHAN_REFRESH,
          nonce_expiry, \* auth_nonce_expiry of the server's configuration
          FAILC_MAX,
          Front,        \* TRUE: the client is first given a redirecting server
          SendFails,    \* TRUE: stun_request may fail at once
          Faults,       \* the server may restart, and be drained
          Passwords,    \* subset of BOOLEAN: may the password be right, wrong
          Kinds         \* subset of {"perm", "chan"} the application uses

VARIABLES cli,   \* struct turnc: open, allocated, nonce, lifetime, server, next
                 \* channel number, what th was told
          obj,   \* the allocation, permission and channel objects
          srv,   \* the server: allocation, permissions, channels, draining
          net,   \* requests on the network
          rsp,   \* responses on the network
          pwd,   \* is the client's password the one the server knows
          restarted  \* has the server restarted

vars == <<cli, obj, srv, net, rsp, pwd, restarted>>

Alloc == [k |-> "alloc", p |-> None]
Owner == {Alloc} \cup [k : {"perm", "chan"}, p : Peers]

Off == -1

(* What th was told: nothing yet, the allocation, or the first error (a    *)
(* request that could not be sent, one that was not answered, a status).   *)
Quiet == -3
Unsent == -2
TimedOut == -1
Up == 0
First(scode) == IF cli.told \in {Quiet, Up} THEN scode ELSE cli.told

(* An object: does it exist, the request it waits for and its age, the     *)
(* loop state, the refresh timer, the channel number, and whether the      *)
(* server has confirmed it.                                                *)
Absent == [on |-> FALSE, req |-> None, age |-> 0, failc |-> 0, last |-> 0,
           tmr |-> Off, nr |-> None, conf |-> FALSE]

Least(S) == CHOOSE x \in S : \A y \in S : x <= y
Smaller(a, b) == IF a <= b THEN a ELSE b
Larger(a, b) == IF a <= b THEN b ELSE a

Pending == {o \in Owner : obj[o].req # None}

(* A random transaction id, which differs from all that are still around.  *)
FreshTid == Least({t \in 1..(2 * Cardinality(Owner) + 3) :
                     /\ \A o \in Pending : obj[o].req.tid # t
                     /\ \A m \in net \cup rsp : m.tid # t
                     /\ srv.al.tid # t})

-----------------------------------------------------------------------------
(* The client                                                              *)

(* The loop state after an answer, and whether it says to give up.         *)
request_loops(ob, scode) ==
  LET failc == IF scode = 0 THEN 0 ELSE ob.failc + 1 IN
  [ls |-> [ob EXCEPT !.failc = failc, !.last = scode],
   loop |-> /\ scode # 0
            /\ failc >= FAILC_MAX \/ (scode # 300 /\ ob.last = scode)]

loopstate_reset(ob) == [ob EXCEPT !.failc = 0, !.last = 0]

(* stun_request for an object: it has a transaction now, unless the        *)
(* request could not be sent.                                              *)
Request(o, ob, met, nonce, life, sent) ==
  LET req == [tid |-> FreshTid, met |-> met, nonce |-> nonce, life |-> life,
              p |-> o.p, nr |-> ob.nr, to |-> cli'.srv]
  IN /\ obj' = [obj EXCEPT ![o] = [ob EXCEPT !.req = IF sent THEN req ELSE None,
                                             !.age = 0]]
     /\ net' = IF sent THEN net \cup {req} ELSE net

(* A server without allocations.                                           *)
Empty(draining) ==
  [al |-> [on |-> FALSE, left |-> 0, tid |-> None],
   perms |-> [p \in Peers |-> Off],
   chans |-> [p \in Peers |-> [left |-> Off, nr |-> None]],
   draining |-> draining]

Sending == IF SendFails THEN BOOLEAN ELSE {TRUE}

Init ==
  /\ cli = [open |-> FALSE, allocated |-> FALSE, nonce |-> None,
            life |-> DEFAULT, srv |-> IF Front THEN "front" ELSE "restund",
            nr |-> 0, told |-> Quiet]
  /\ obj = [o \in Owner |-> Absent]
  /\ srv = Empty(FALSE)
  /\ net = {} /\ rsp = {}
  /\ pwd \in Passwords
  /\ restarted = FALSE

(* A request that cannot be sent leaves no client behind.                  *)
turnc_alloc ==
  /\ ~cli.open /\ ~obj[Alloc].on /\ cli.told = Quiet
  /\ cli' = [cli EXCEPT !.open = TRUE]
  /\ Request(Alloc, [Absent EXCEPT !.on = TRUE], "allocate", None, DEFAULT, TRUE)
  /\ UNCHANGED <<srv, rsp, pwd, restarted>>

(* The response to the pending transaction of an object arrives, or the    *)
(* transaction gives up (response None); others fall on the floor.         *)
Heard(o, r) ==
  /\ cli.open /\ o \in Pending
  /\ IF r = None THEN UNCHANGED rsp
     ELSE r \in rsp /\ r.tid = obj[o].req.tid /\ rsp' = rsp \ {r}

Told(o, ob, scode) ==
  /\ obj' = [obj EXCEPT ![o] = [ob EXCEPT !.req = None, !.age = 0]]
  /\ cli' = [cli EXCEPT !.told = First(scode)]
  /\ UNCHANGED net

(* turnc_keygen followed by the same request with the new nonce.           *)
Retry(o, ob, r, met, life) ==
  \E sent \in Sending :
    /\ cli' = [cli EXCEPT !.nonce = r.nonce,
                          !.told = IF sent THEN @ ELSE First(Unsent)]
    /\ Request(o, ob, met, r.nonce, life, sent)

(* What the three answer handlers have in common; Success is the rest.     *)
Answered(o, r, met, life, Success(_)) ==
  IF r = None THEN Told(o, obj[o], TimedOut)
  ELSE LET l == request_loops(obj[o], r.code) IN
       CASE l.loop -> Told(o, l.ls, r.code)
         [] ~l.loop /\ r.code = 0 -> Success(l.ls)
         [] ~l.loop /\ r.code \in {401, 438} -> Retry(o, l.ls, r, met, life)
         [] OTHER -> Told(o, l.ls, r.code)

(* refresh_timer: three quarters of the lifetime.                          *)
refresh_timer_Whole(life) == life
refresh_timer(life) == (life * 3) \div 4

allocate_resp_handler(r) ==
  LET Success(ob) ==
        /\ cli' = [cli EXCEPT !.allocated = TRUE, !.life = r.life,
                              !.told = Up]
        /\ obj' = [obj EXCEPT ![Alloc] =
                     [ob EXCEPT !.req = None, !.age = 0, !.conf = TRUE,
                                !.tmr = refresh_timer(r.life)]]
        /\ UNCHANGED net
      l == request_loops(obj[Alloc], r.code)
  IN /\ Heard(Alloc, r) /\ obj[Alloc].req.met = "allocate"
     /\ IF r # None /\ r.code = 300 /\ ~l.loop
        THEN \E sent \in Sending :
               /\ cli' = [cli EXCEPT !.srv = r.alt,
                                     !.told = IF sent THEN @ ELSE First(Unsent)]
               /\ Request(Alloc, l.ls, "allocate", cli.nonce, cli.life, sent)
        ELSE Answered(Alloc, r, "allocate", cli.life, Success)
     /\ UNCHANGED <<srv, pwd, restarted>>

refresh_resp_handler(r) ==
  LET Success(ob) ==
        /\ cli' = [cli EXCEPT !.life = r.life]
        /\ obj' = [obj EXCEPT ![Alloc] =
                     [ob EXCEPT !.req = None, !.age = 0,
                                !.tmr = refresh_timer(r.life)]]
        /\ UNCHANGED net
  IN /\ Heard(Alloc, r) /\ obj[Alloc].req.met = "refresh"
     /\ Answered(Alloc, r, "refresh", cli.life, Success)
     /\ UNCHANGED <<srv, pwd, restarted>>

(* createperm_resp_handler and chanbind_resp_handler have the same body.   *)
peer_resp_handler(o, r, met, refresh) ==
  LET Success(ob) ==
        /\ obj' = [obj EXCEPT ![o] = [ob EXCEPT !.req = None, !.age = 0,
                                                !.conf = TRUE, !.tmr = refresh]]
        /\ UNCHANGED <<cli, net>>
  IN /\ Heard(o, r)
     /\ Answered(o, r, met, 0, Success)
     /\ UNCHANGED <<srv, pwd, restarted>>

createperm_resp_handler(o, r) ==
  o.k = "perm" /\ peer_resp_handler(o, r, "createperm", PERM_REFRESH)
chanbind_resp_handler(o, r) ==
  o.k = "chan" /\ peer_resp_handler(o, r, "chanbind", CHAN_REFRESH)

(* The application asks for a peer; the ICE agent does so once it was told *)
(* of the allocation.  A second request for a peer does nothing.           *)
turnc_add_perm(p) ==
  LET o == [k |-> "perm", p |-> p] IN
  /\ "perm" \in Kinds /\ cli.open /\ cli.told = Up /\ ~obj[o].on
  /\ UNCHANGED cli
  /\ \E sent \in Sending :
       Request(o, IF sent THEN [Absent EXCEPT !.on = TRUE] ELSE Absent,
               "createperm", cli.nonce, 0, sent)
  /\ UNCHANGED <<srv, rsp, pwd, restarted>>

(* Numbers are taken in turn and never given back: a request that could    *)
(* not be sent has used its number all the same.                           *)
turnc_add_chan(p) ==
  LET o == [k |-> "chan", p |-> p] IN
  /\ "chan" \in Kinds /\ cli.open /\ cli.told = Up /\ ~obj[o].on
  /\ cli.nr <= Cardinality(Peers)      \* a bound, far below CHAN_NUMB_MAX
  /\ cli' = [cli EXCEPT !.nr = @ + 1]
  /\ \E sent \in Sending :
       Request(o, IF sent THEN [Absent EXCEPT !.on = TRUE, !.nr = cli.nr] ELSE Absent,
               "chanbind", cli.nonce, 0, sent)
  /\ UNCHANGED <<srv, rsp, pwd, restarted>>

(* A refresh timer runs out: the loop state starts anew.  A refresh that   *)
(* cannot be sent is told to the owner, and the timer stays off.           *)
timeout(o) ==
  /\ cli.open /\ obj[o].tmr = 0
  /\ \E sent \in Sending :
       /\ cli' = IF sent THEN cli ELSE [cli EXCEPT !.told = First(Unsent)]
       /\ Request(o, [loopstate_reset(obj[o]) EXCEPT !.tmr = Off],
                  CASE o.k = "alloc" -> "refresh" [] o.k = "perm" -> "createperm"
                    [] o.k = "chan" -> "chanbind",
                  cli.nonce, cli.life, sent)
  /\ UNCHANGED <<srv, rsp, pwd, restarted>>

(* The destructor releases the allocation with a Refresh of lifetime 0,    *)
(* whose transaction it drops at once: the request is sent a single time   *)
(* and its answer is not waited for.                                       *)
destructor ==
  /\ cli.open
  /\ cli' = [cli EXCEPT !.open = FALSE]
  /\ obj' = [o \in Owner |-> IF o = Alloc THEN [Absent EXCEPT !.on = TRUE] ELSE Absent]
  /\ net' = IF cli.allocated
            THEN net \cup {[tid |-> FreshTid, met |-> "refresh", nonce |-> cli.nonce,
                            life |-> 0, p |-> None, nr |-> None, to |-> cli.srv]}
            ELSE net
  /\ UNCHANGED <<srv, rsp, pwd, restarted>>

-----------------------------------------------------------------------------
(* The server: what becomes of it, and the answer                          *)

Reply(s, code, nonce, life) ==
  [srv |-> s, code |-> code, nonce |-> nonce, life |-> life, alt |-> None]
Ok(s, life) == Reply(s, 0, None, life)
Err(s, code) == Reply(s, code, None, 0)

(* drain: no allocation is made, none is prolonged, it may be released.    *)
Drains(s, m) ==
  s.draining /\ (m.met = "allocate" \/ (m.met = "refresh" /\ m.life > 0))

(* auth: a request without credentials, with a nonce too old or of another *)
(* life of the server, or with the wrong password is challenged.           *)
Unauth(s, m) ==
  CASE m.nonce = None -> {Reply(s, 401, nonce_expiry, 0)}
    [] m.nonce # None /\ m.nonce < 0 -> {Reply(s, 438, nonce_expiry, 0)}
    [] m.nonce # None /\ m.nonce >= 0 /\ ~pwd -> {Reply(s, 401, nonce_expiry, 0)}
    [] OTHER -> {}

(* A retransmission of the request that made the allocation is answered    *)
(* again; a relay port may not be had.                                     *)
allocate_request(s, m) ==
  LET life == Smaller(Larger(m.life, DEFAULT), lifetime_max) IN
  IF s.al.on
  THEN {IF s.al.tid = m.tid THEN Ok(s, s.al.left) ELSE Err(s, 437)}
  ELSE {Ok([s EXCEPT !.al = [on |-> TRUE, left |-> life, tid |-> m.tid]], life),
        Err(s, 508)}

refresh_request(s, m) ==
  LET life == Smaller(IF m.life = 0 THEN 0 ELSE Larger(m.life, DEFAULT),
                      lifetime_max)
  IN {Ok([s EXCEPT !.al.left = life], life)}

createperm_request(s, m) == {Ok([s EXCEPT !.perms[m.p] = PERM_LIFETIME], 0)}

(* A number and a peer belong together or are both free; the permission    *)
(* of the peer is refreshed with its channel.                              *)
chanbind_request(s, m) ==
  LET numb == {p \in Peers : s.chans[p].nr = m.nr}
      bound == s.chans[m.p].nr # None
  IN {IF numb # (IF bound THEN {m.p} ELSE {})
      THEN Err(s, 400)
      ELSE Ok([s EXCEPT !.chans[m.p] = [left |-> CHAN_LIFETIME, nr |-> m.nr],
                        !.perms[m.p] = PERM_LIFETIME], 0)}

(* turn: the requests of an allocation that does not exist are refused.    *)
turn_request(s, m) ==
  CASE m.met = "allocate" -> allocate_request(s, m)
    [] m.met # "allocate" /\ ~s.al.on -> {Err(s, 437)}
    [] m.met = "refresh" /\ s.al.on -> refresh_request(s, m)
    [] m.met = "createperm" /\ s.al.on -> createperm_request(s, m)
    [] m.met = "chanbind" /\ s.al.on -> chanbind_request(s, m)

process_msg(s, m) ==
  IF Drains(s, m) THEN {Err(s, 508)}
  ELSE IF Unauth(s, m) # {} THEN Unauth(s, m)
  ELSE turn_request(s, m)

(* A request arrives, perhaps once more as a retransmission.               *)
restund_process_msg(m) ==
  /\ m \in net /\ m.to = "restund"
  /\ \E r \in process_msg(srv, m) :
       /\ srv' = r.srv
       /\ rsp' = rsp \cup {[tid |-> m.tid, code |-> r.code, nonce |-> r.nonce,
                            life |-> r.life, alt |-> r.alt]}
  /\ net' = net \ {m}
  /\ UNCHANGED <<cli, obj, pwd, restarted>>

(* A server that sends its clients elsewhere, perhaps to one like itself.  *)
Redirect(m) ==
  /\ m \in net /\ m.to = "front"
  /\ \E alt \in {"front", "restund"} :
       rsp' = rsp \cup {[tid |-> m.tid, code |-> 300, nonce |-> None,
                         life |-> 0, alt |-> alt]}
  /\ net' = net \ {m}
  /\ UNCHANGED <<cli, obj, srv, pwd, restarted>>

(* The allocation's timer takes its permissions and channels with it.      *)
alloc_timeout ==
  /\ srv.al.on /\ srv.al.left = 0
  /\ srv' = Empty(srv.draining)
  /\ UNCHANGED <<cli, obj, net, rsp, pwd, restarted>>

drain ==
  /\ Faults
  /\ srv' = [srv EXCEPT !.draining = ~@]
  /\ UNCHANGED <<cli, obj, net, rsp, pwd, restarted>>

Stale(n) == IF n = None THEN None ELSE Off
WithNonce(ob, Op(_)) ==
  IF ob.req = None THEN ob ELSE [ob EXCEPT !.req.nonce = Op(@)]
Restart ==
  /\ Faults /\ ~restarted
  /\ restarted' = TRUE
  /\ srv' = Empty(FALSE)
  /\ cli' = [cli EXCEPT !.nonce = Stale(@)]
  /\ obj' = [o \in Owner |-> WithNonce(obj[o], Stale)]
  /\ net' = {[m EXCEPT !.nonce = Stale(@)] : m \in net}
  /\ rsp' = {[r EXCEPT !.nonce = Stale(@)] : r \in rsp}
  /\ UNCHANGED pwd

-----------------------------------------------------------------------------
(* The network and the time                                                *)

(* A request is repeated when its unit has passed without an answer.       *)
Retransmit(o) ==
  /\ o \in Pending /\ obj[o].age = 1 /\ obj[o].req \notin net
  /\ \A r \in rsp : r.tid # obj[o].req.tid
  /\ net' = net \cup {obj[o].req}
  /\ UNCHANGED <<cli, obj, srv, rsp, pwd, restarted>>

Less(n) == IF n > Off THEN n - 1 ELSE Off
LessNonce(n) == IF n = None THEN None ELSE Less(n)
(* Timers that are due run first, a transaction is over within a unit, and *)
(* packets that have not arrived are lost.                                 *)
Tick ==
  /\ \A o \in Owner : obj[o].tmr # 0
  /\ ~(srv.al.on /\ srv.al.left = 0)
  /\ \A o \in Pending : obj[o].age = 0
  /\ net' = {} /\ rsp' = {}
  /\ obj' = [o \in Owner |-> [WithNonce(obj[o], LessNonce) EXCEPT
                                 !.tmr = Less(@),
                                 !.age = IF o \in Pending THEN 1 ELSE 0]]
  /\ cli' = [cli EXCEPT !.nonce = LessNonce(@)]
  /\ srv' = [srv EXCEPT !.al.left = IF srv.al.on THEN @ - 1 ELSE 0,
                        !.perms = [p \in Peers |-> Less(@[p])],
                        !.chans = [p \in Peers |->
                                     IF @[p].left > 0 THEN [@[p] EXCEPT !.left = @ - 1]
                                     ELSE [left |-> Off, nr |-> None]]]
  /\ UNCHANGED <<pwd, restarted>>

Answer(o) == \E r \in rsp \cup {None} :
               \/ o = Alloc /\ allocate_resp_handler(r)
               \/ o = Alloc /\ refresh_resp_handler(r)
               \/ createperm_resp_handler(o, r)
               \/ chanbind_resp_handler(o, r)

Resting == ~cli.open /\ cli.told # Quiet /\ UNCHANGED vars

Next ==
  \/ turnc_alloc \/ destructor
  \/ \E p \in Peers : turnc_add_perm(p) \/ turnc_add_chan(p)
  \/ \E o \in Owner : Answer(o) \/ timeout(o) \/ Retransmit(o)
  \/ \E m \in net : restund_process_msg(m) \/ Redirect(m)
  \/ alloc_timeout \/ drain \/ Restart
  \/ Tick \/ Resting

Spec == Init /\ [][Next]_vars
-----------------------------------------------------------------------------
Failed == cli.told \notin {Quiet, Up}
Silent == cli.open /\ ~Failed /\ ~restarted

(* Types of the client's and the server's state.                           *)
TypeOK ==
  /\ cli.nonce \in {None} \cup (Off..nonce_expiry)
  /\ cli.life \in 0..Larger(DEFAULT, lifetime_max) /\ cli.nr \in Nat
  /\ \A o \in Owner : /\ obj[o].age \in 0..1 /\ obj[o].failc \in 0..FAILC_MAX
                      /\ obj[o].tmr >= Off
                      /\ o \in Pending => obj[o].on
  /\ srv.al.left \in 0..lifetime_max
  /\ ~srv.al.on => \A p \in Peers : srv.perms[p] = Off /\ srv.chans[p].nr = None

(* The server does not let the allocation go while the client, which has   *)
(* heard of no error, believes in it: at worst the refresh is under way.   *)
AllocationHeld ==
  Silent /\ cli.allocated => srv.al.on \/ Alloc \in Pending

(* Nor the permission for a peer the client was given one for, through     *)
(* turnc_add_perm or with a channel: it may lapse only while the refresh   *)
(* is being repeated because it had a stale nonce.                         *)
PermissionHeld ==
  Silent /\ srv.al.on =>
    \A o \in Owner \ {Alloc} : obj[o].conf =>
      srv.perms[o.p] # Off \/ (o \in Pending /\ obj[o].failc > 0)

(* A channel the client was given stays bound, to the number the client    *)
(* puts on its packets.                                                    *)
ChannelHeld ==
  Silent /\ srv.al.on =>
    \A p \in Peers : LET o == [k |-> "chan", p |-> p] IN
      obj[o].conf => srv.chans[p].nr = obj[o].nr

(* The client was sent from server to server until it gave up.             *)
WentRound == Front /\ (obj[Alloc].failc = FAILC_MAX \/ ~cli.open)

(* Every error the owner is told of has its cause: channels never clash, a *)
(* stale nonce alone is no error as long as nonces live for two units, and *)
(* the allocation is missing only after a restart or when its lifetime is  *)
(* too short for a refresh to be repeated.                                 *)
ErrorExplained ==
  /\ cli.told \in {Quiet, Unsent, TimedOut, Up, 300, 401, 437, 438, 508}
  /\ cli.told = 401 => ~pwd \/ WentRound
  /\ cli.told = 438 => nonce_expiry < 2 \/ restarted \/ WentRound
  /\ cli.told = 437 => restarted \/ lifetime_max < 10
  /\ cli.told = 300 => WentRound

(* While the server is drained no allocation appears and none is prolonged *)
(* (drain.c: "prevents new allocations and denies allocation refresh").    *)
DrainStops ==
  srv.draining /\ srv'.draining =>
    (srv'.al.on => srv.al.on /\ srv'.al.left <= srv.al.left)

(* Timers run, time passes, and a transaction ends with its answer or      *)
(* without one.                                                            *)
Fair ==
  /\ WF_vars(Tick) /\ WF_vars(alloc_timeout)
  /\ \A o \in Owner : WF_vars(timeout(o)) /\ WF_vars(Answer(o))
FairSpec == Spec /\ Fair

(* An allocation that was asked for is given or refused.                   *)
OutcomeTold == cli.open ~> (cli.told # Quiet \/ ~cli.open)

(* The server forgets the allocation of a client that is gone, whether or  *)
(* not the single release request came through.                            *)
Released == ~cli.open ~> (~srv.al.on \/ cli.open)

(* A client whose server has lost the allocation, by a restart or because  *)
(* it lapsed, is told so.                                                  *)
LossTold == (cli.allocated /\ ~srv.al.on) ~> (Failed \/ ~cli.open)
=============================================================================
