------------------------------ MODULE IceAgent ------------------------------
(***************************************************************************)
(* Connectivity checks between two agents that both run the ICE stack of   *)
(* libre (re/src/ice), for one media stream with one component (barertc    *)
(* sets rtcp_mux).  An agent is a record; a handler is an operator from    *)
(* the agent before to the agent after, and the datagrams it sends are     *)
(* added to its field out.                                                 *)
(*                                                                         *)
(* All local candidates of a component share one socket.  So it is the     *)
(* route to the remote address, Path, and not the local candidate of the   *)
(* pair that decides which address the peer sees.                          *)
(*                                                                         *)
(* The network repeats and reorders datagrams: a request may arrive        *)
(* several times while its transaction is pending (it is retransmitted)    *)
(* and after it.  Stun.tla models the transaction; here it ends by an      *)
(* answer or a timeout.  Credentials are right, and the candidates offered *)
(* are host candidates: the demo names no STUN or TURN server.  Nothing    *)
(* reads the flag "nominated", so it and USE-CANDIDATE are left out.       *)
(***************************************************************************)
EXTENDS Integers, FiniteSets, SequencesExt

CONSTANTS Addr,      \* Addr[x]: the host candidates of agent x, in order
          Path,      \* Path[x][r]: the address that the owner of r sees
                     \*   datagrams of x come from; NoPath if none arrive
          NoPath,
          Prio,      \* Prio[l]: the candidate's priority
          Tie,       \* Tie[x]: the tie-breaker
          Role0,     \* Role0[x]: the initial role
          Lossy,     \* a transaction may time out although there is a path
          MaxReq,    \* bound: requests of an agent
          MaxErr     \* bound: failed calls of stun_request of an agent

Agents == {"a", "b"}
Peer(x) == IF x = "a" THEN "b" ELSE "a"

ASSUME IceAssumption ==
  /\ \A x \in Agents : Role0[x] \in {"controlling", "controlled"}
  /\ Tie["a"] # Tie["b"] /\ Lossy \in BOOLEAN

VARIABLES ag,     \* ag[x]: the struct icem of agent x
          net     \* datagrams that may arrive

vars == <<ag, net>>

(* The addresses under which agent x may be seen.                          *)
Faces(x) == ToSet(Addr[x]) \cup ({Path[x][r] : r \in DOMAIN Path[x]} \ {NoPath})

(* A pair <<l, r, c>>: c = 1 for the pair made of a reflected address.     *)
Pairs(x) == Faces(x) \X Faces(Peer(x)) \X {0, 1}
NoPair == <<>>
Statuses == {"frozen", "waiting", "inprogress", "succeeded", "failed"}

NewAgent(x) ==
  [state |-> "null", lrole |-> Role0[x], pace |-> FALSE, rcandl |-> Addr[Peer(x)],
   checkl |-> <<>>, validl |-> <<>>,
   ps |-> [p \in Pairs(x) |-> "frozen"],      \* state of a pair
   pprio |-> [p \in Pairs(x) |-> 0],
   ct |-> [p \in Pairs(x) |-> 0],             \* ct_conn: pending request
   sel |-> NoPair, concluded |-> FALSE,
   chkh |-> TRUE, ok |-> 0, fail |-> 0,       \* calls of the handler
   n |-> 0, errs |-> 0, unsent |-> {},        \* requests, failed sends
   out |-> {}]

Init == ag = [x \in Agents |-> NewAgent(x)] /\ net = {}

(***************************************************************************)
(* Candidate pairs.                                                        *)
(***************************************************************************)
Completed(st) == st \in {"succeeded", "failed"}

(* candpair_set_pprio; 1000 stands for 2^32.                               *)
ice_calc_pair_prio(role, l, r) ==
  LET g == IF role = "controlling" THEN l ELSE r
      d == IF role = "controlling" THEN r ELSE l
      lo == IF g < d THEN g ELSE d
      hi == IF g < d THEN d ELSE g
  IN  1000 * lo + 2 * hi + IF g > d THEN 1 ELSE 0

(* Before the pairs whose priority is not higher.                          *)
list_add_sorted(s, list, p) ==
  InsertAt(list, 1 + SelectLastInSeq(list, LAMBDA q : s.pprio[p] < s.pprio[q]), p)

(* A completed pair stays what it is.                                      *)
set_state(s, p, st) == IF Completed(s.ps[p]) THEN s ELSE [s EXCEPT !.ps[p] = st]

make_valid(s, p) ==
  LET t == set_state(s, p, "succeeded")
  IN  [t EXCEPT !.checkl = Remove(@, p),
                !.validl = list_add_sorted(s, Remove(@, p), p)]

(* icem_candpair_find and its like: the first pair of a list that is in S. *)
FirstIn(list, S) ==
  LET i == SelectInSeq(list, LAMBDA p : p \in S)
  IN  IF i = 0 THEN NoPair ELSE list[i]

InState(s, state) == {p \in DOMAIN s.ps : s.ps[p] = state}

(***************************************************************************)
(* Sending checks.  e.bad are the remote addresses to which stun_request   *)
(* fails in this step, with e.nomem for want of memory.                    *)
(***************************************************************************)
CanSend(s, p, e) == s.ct[p] = 0 /\ p[2] \notin e.bad

icem_conncheck_send(s, x, p, e) ==
  LET t == set_state(s, p, "inprogress")
  IN  IF CanSend(s, p, e)
      THEN [t EXCEPT !.ct[p] = s.n + 1, !.n = s.n + 1,
                     !.out = @ \cup {[kind |-> "request", from |-> x, pair |-> p,
                                      tid |-> s.n + 1, role |-> s.lrole]}]
      ELSE IF s.ct[p] # 0 THEN t ELSE [t EXCEPT !.errs = @ + 1]

(* A check whose sender does not look at the error: the pair stays in      *)
(* progress without a transaction (unsent records it).                     *)
SendUnchecked(s, x, p, e) ==
  LET t == icem_conncheck_send(s, x, p, e)
  IN  IF t.ps[p] = "inprogress" /\ t.ct[p] = 0
      THEN [t EXCEPT !.unsent = @ \cup {p}] ELSE t

Report(s, st) ==
  LET t == [s EXCEPT !.state = st]
  IN  IF ~s.chkh THEN t
      ELSE IF st = "failed" THEN [t EXCEPT !.fail = @ + 1] ELSE [t EXCEPT !.ok = @ + 1]

abort_ice(s) == [Report(s, "failed") EXCEPT !.pace = FALSE, !.chkh = FALSE]

RECURSIVE schedule_check(_, _, _)

(* The best valid pair is selected and sent again, with USE-CANDIDATE.     *)
concluding_ice(s, x, e) ==
  LET cp == FirstIn(s.validl, InState(s, "succeeded"))
      t == icem_conncheck_send([s EXCEPT !.sel = cp], x, cp, e)
  IN  IF s.concluded \/ cp = NoPair THEN s
      ELSE [schedule_check(t, x, e) EXCEPT !.concluded = TRUE]

iscompleted(s) == \A i \in 1..Len(s.checkl) : Completed(s.ps[s.checkl[i]])

checklist_update(s, x, e) ==
  IF ~iscompleted(s) THEN s
  ELSE IF s.validl = <<>> THEN Report(s, "failed")
  ELSE Report(concluding_ice(s, x, e), "completed")

pace_next(s, x, e) ==
  LET t == schedule_check(s, x, e)
  IN  IF s.state # "running" THEN s
      ELSE IF t.state = "failed" THEN t
      ELSE checklist_update(t, x, e)

(* Faulty variant: the pair that cannot be checked is not marked.          *)
do_check_Kept(s, x, p, e) ==
  LET t == icem_conncheck_send(s, x, p, e)
  IN  IF CanSend(s, p, e) THEN t
      ELSE IF e.nomem /\ s.ct[p] = 0 THEN abort_ice(t)
      ELSE pace_next(t, x, e)

(* A check that cannot be sent fails, and the next one is tried.           *)
do_check(s, x, p, e) ==
  LET t == icem_conncheck_send(s, x, p, e)
      f == set_state(t, p, "failed")
  IN  IF CanSend(s, p, e) THEN t
      ELSE IF e.nomem /\ s.ct[p] = 0 THEN abort_ice(f)
      ELSE pace_next(f, x, e)

schedule_check(s, x, e) ==
  LET w == FirstIn(s.checkl, InState(s, "waiting"))
      f == FirstIn(s.checkl, InState(s, "frozen"))
  IN  IF w # NoPair THEN do_check(s, x, w, e)
      ELSE IF f # NoPair THEN do_check(s, x, f, e)
      ELSE s

ice_switch_local_role(s) ==
  [s EXCEPT !.lrole = IF @ = "controlling" THEN "controlled" ELSE "controlling"]

(* construct_valid_pair: the pair that was checked becomes valid, and if   *)
(* the check was seen from another address, the pair of that address.      *)
construct_valid_pair(s, p, mapped) ==
  LET q == FirstIn(s.validl, {v \in ToSet(s.validl) : v[1] = mapped /\ v[2] = p[2]})
      c == <<mapped, p[2], 1>>
  IN  IF mapped = p[1] THEN p ELSE IF q # NoPair THEN q ELSE c

handle_success(s, p, mapped) ==
  LET t == make_valid(s, p)
      q == construct_valid_pair(t, p, mapped)
      u == IF q \in ToSet(t.validl) THEN t
           ELSE [t EXCEPT !.ps[q] = t.ps[p], !.pprio[q] = t.pprio[p]]
  IN  [make_valid(u, q) EXCEPT !.sel = q]

(***************************************************************************)
(* The steps.  The agent's new state replaces the old one, and what it     *)
(* sent is on the network; an answer that nobody waits for has no effect   *)
(* and is dropped.                                                         *)
(***************************************************************************)
Pending(t, x, m) == m.kind = "request" \/ m.from # x \/ t.ct[m.pair] = m.tid

Becomes(x, t, answers, e) ==
  /\ t.n <= MaxReq /\ t.errs <= MaxErr
  /\ e.bad # {} => t.errs > ag[x].errs
  /\ ag' = [ag EXCEPT ![x] = [t EXCEPT !.out = {}]]
  /\ net' = {m \in net \cup t.out : Pending(t, x, m)} \cup answers

(* Every local candidate with every remote one known by now.               *)
candpairs_form(s, x) ==
  LET m == Len(s.rcandl)
  IN  [k \in 1..(Len(Addr[x]) * m) |->
         <<Addr[x][((k - 1) \div m) + 1], s.rcandl[((k - 1) % m) + 1], 0>>]

icem_checklist_form(s, x) ==
  LET t == [s EXCEPT !.pprio = [p \in Pairs(x) |->
                                 ice_calc_pair_prio(s.lrole, Prio[p[1]], Prio[p[2]])]]
  IN  [t EXCEPT !.checkl = FoldLeft(LAMBDA list, p : list_add_sorted(t, list, p),
                                    <<>>, candpairs_form(s, x))]

(* With a single component every pair starts to wait.                      *)
ice_candpair_set_states(s) ==
  [s EXCEPT !.ps = [p \in DOMAIN s.ps |-> IF p \in ToSet(s.checkl) THEN "waiting" ELSE s.ps[p]]]

(* ice_start: pair states are set for the first stream of the session.     *)
icem_conncheck_start(x, first) ==
  LET t == icem_checklist_form(ag[x], x)
      u == IF first THEN ice_candpair_set_states(t) ELSE t
  IN  /\ ag[x].state = "null"
      /\ ag' = [ag EXCEPT ![x] = [u EXCEPT !.state = "running", !.pace = TRUE]]
      /\ UNCHANGED net

pace_timeout(x, e) ==
  /\ ag[x].pace
  /\ Becomes(x, pace_next([ag[x] EXCEPT !.pace = FALSE], x, e), {}, e)

Src(m) == Path[m.from][m.pair[2]]

Response(m, code) ==
  [kind |-> "response", from |-> m.from, pair |-> m.pair, tid |-> m.tid, code |-> code]

(* The sender of the request still waits for its answer.                   *)
Expected(m) == ag[m.from].ct[m.pair] = m.tid

(* A check in the other direction, for the pair the request belongs to.    *)
triggered_check(s, x, src, e) ==
  LET c == FirstIn(s.checkl, {p \in ToSet(s.checkl) : p[2] = src})
      v == FirstIn(s.validl, {p \in ToSet(s.validl) : p[2] = src})
      l == IF c # NoPair THEN c ELSE IF v # NoPair THEN v
           ELSE FirstIn(s.checkl, ToSet(s.checkl))
      t == <<l[1], src, 0>>
  IN  IF l # NoPair /\ t \in ToSet(s.checkl) /\ s.ps[t] \in {"failed", "frozen", "waiting"}
      THEN SendUnchecked(s, x, t, e) ELSE s

(* Faulty variant: the role of the peer's request is not compared.         *)
Conflict_Never(s, m) == FALSE

Conflict(s, m) == m.role = s.lrole

(* A request arrives: of two agents in the same role, the one with the     *)
(* larger tie-breaker switches and the other answers 487.                  *)
icem_stund_recv(x, m, e) ==
  LET s == ag[x]
      t == IF Conflict(s, m) THEN ice_switch_local_role(s) ELSE s
      u == IF Src(m) \in ToSet(s.rcandl) THEN t ELSE [t EXCEPT !.rcandl = Append(@, Src(m))]
  IN  /\ m.kind = "request" /\ m.from = Peer(x) /\ Src(m) # NoPath
      /\ IF Conflict(s, m) /\ Tie[x] < Tie[m.from]
         THEN Becomes(x, s, {r \in {Response(m, 487)} : Expected(m)}, e)
         ELSE Becomes(x, triggered_check(u, x, Src(m), e), {r \in {Response(m, 0)} : Expected(m)}, e)

(* stunc_resp_handler with an answer: success, or a role conflict.         *)
stunc_resp_handler(x, m, e) ==
  LET s == [ag[x] EXCEPT !.ct[m.pair] = 0]
      t == IF m.code = 0 THEN handle_success(s, m.pair, Src(m))
           ELSE SendUnchecked(ice_switch_local_role(s), x, m.pair, e)
  IN  /\ m.kind = "response" /\ m.from = x /\ Expected(m)
      /\ Becomes(x, pace_next(t, x, e), {}, e)

(* stunc_resp_handler without one.                                         *)
stunc_timeout(x, p, e) ==
  LET s == [ag[x] EXCEPT !.ct[p] = 0]
  IN  /\ ag[x].ct[p] # 0 /\ (Lossy \/ Path[x][p[2]] = NoPath)
      /\ Becomes(x, pace_next(set_state(s, p, "failed"), x, e), {}, e)

(* Datagrams of finished transactions disappear.                           *)
Expire(m) ==
  /\ ~Expected(m)
  /\ net' = net \ {m}
  /\ UNCHANGED ag

Resting ==
  /\ \A x \in Agents : /\ ag[x].state # "null" /\ ~ag[x].pace
                       /\ \A p \in Pairs(x) : ag[x].ct[p] = 0
  /\ UNCHANGED vars

Faults(x) ==
  {[bad |-> b, nomem |-> o] : b \in SUBSET Faces(Peer(x)) \ {{}}, o \in BOOLEAN}
  \cup {[bad |-> {}, nomem |-> FALSE]}

Recv(x) == \E e \in Faults(x), m \in net : icem_stund_recv(x, m, e)
Answer(x) == \E e \in Faults(x), m \in net : stunc_resp_handler(x, m, e)
Timeout(x) == \E e \in Faults(x), p \in Pairs(x) : stunc_timeout(x, p, e)
Pace(x) == \E e \in Faults(x) : pace_timeout(x, e)
Start(x) == \E first \in BOOLEAN : icem_conncheck_start(x, first)

Next == \/ \E x \in Agents : Start(x) \/ Pace(x) \/ Recv(x) \/ Answer(x) \/ Timeout(x)
        \/ \E m \in net : Expire(m)
        \/ Resting

Spec == Init /\ [][Next]_vars

(* Both sessions are started by the application, timers fire, and of the   *)
(* retransmissions of a request on a working path one is served and one    *)
(* answer arrives.  This is weak fairness of the first two actions and     *)
(* strong fairness of the others, with what enables them spelled out.      *)
Waits(x, m) == m.kind = "response" /\ m.from = x /\ Expected(m)
Unserved(x, m) ==
  /\ m.kind = "request" /\ m.from = Peer(x) /\ Src(m) # NoPath /\ Expected(m)
  /\ \A r \in net : Waits(m.from, r) => r.tid # m.tid
Doomed(x, p) == ag[x].ct[p] # 0 /\ Path[x][p[2]] = NoPath

FairSpec ==
  /\ Spec
  /\ \A x \in Agents :
       /\ <>(ag[x].state # "null")
       /\ []<>~ag[x].pace
       /\ []<>(\E m \in net : Unserved(x, m)) => []<><<\E m \in net' \ net : Waits(Peer(x), m)'>>_vars
       /\ []<>(\E m \in net : Waits(x, m)) => []<><<\E m \in net \ net' : Waits(x, m)>>_vars
       /\ []<>(\E p \in Pairs(x) : Doomed(x, p))
            => []<><<\E p \in Pairs(x) : Doomed(x, p) /\ ag'[x].ct[p] # ag[x].ct[p]>>_vars

(***************************************************************************)
(* Properties.                                                             *)
(***************************************************************************)
TypeOK ==
  /\ \A x \in Agents :
       LET s == ag[x] IN
       /\ s.state \in {"null", "running", "completed", "failed"}
       /\ s.lrole \in {"controlling", "controlled"}
       /\ s.ps \in [Pairs(x) -> Statuses] /\ s.ct \in [Pairs(x) -> 0..MaxReq]
       /\ s.sel \in Pairs(x) \cup {NoPair}
       /\ ToSet(s.checkl) \cup ToSet(s.validl) \subseteq Pairs(x)

(* Every check in progress of a running list will end: its transaction is  *)
(* pending, so an answer or a timeout moves the list on.  The exception is *)
(* a triggered or repeated check that could not be sent, because           *)
(* triggered_check and stunc_resp_handler drop the error.                  *)
CheckPending ==
  \A x \in Agents : ag[x].state = "running" =>
    \A p \in ToSet(ag[x].checkl) :
      ag[x].ps[p] = "inprogress" => ag[x].ct[p] # 0 \/ p \in ag[x].unsent

(* The handler hears of the end of the checks once, or once more for each  *)
(* request that could not be sent (pace_next is nested in do_check), and   *)
(* never of both success and failure.                                      *)
ReportedOnce ==
  \A x \in Agents : LET s == ag[x] IN
    /\ s.ok + s.fail <= 1 + s.errs
    /\ s.ok = 0 \/ s.fail = 0
    /\ s.state \in {"null", "running"} => s.ok + s.fail = 0

(* Media is sent only where a check was answered, although the selected    *)
(* pair is built from the reflected address, moves between two lists and   *)
(* is chosen again when the checks conclude; and after success is          *)
(* reported there is such a pair, and no check is left to try.             *)
SelectedReached ==
  \A x \in Agents : LET s == ag[x] IN
    /\ s.sel # NoPair => /\ Path[x][s.sel[2]] # NoPath
                         /\ s.sel \in ToSet(s.validl)
    /\ s.ok > 0 => s.sel # NoPair /\ \A p \in ToSet(s.checkl) : Completed(s.ps[p])

(* Failure is reported only while no check has been answered; or when      *)
(* memory ran out.                                                         *)
FailsWithoutPath ==
  \A x \in Agents : ag'[x].fail > ag[x].fail =>
    (ag'[x].validl = <<>> \/ ~ag'[x].chkh)

(* Checks on both sides that lose no datagram: an agent with a path to a   *)
(* candidate it was offered completes.                                     *)
Connects ==
  \A x \in Agents :
    (\E i \in 1..Len(Addr[Peer(x)]) : Path[x][Addr[Peer(x)][i]] # NoPath)
      => <>(ag[x].state = "completed")

(* Every list of checks comes to an end, with paths or without.            *)
Concludes == \A x \in Agents : ag[x].state = "running" ~> ag[x].state \in {"completed", "failed"}

(* Two agents that start in the same role end up in different roles, no    *)
(* matter how their requests and the answers 487 cross.                    *)
RolesSettle == <>[](ag["a"].lrole # ag["b"].lrole)

(* The checks come to their end in every way: on agents with a path, in    *)
(* either state, and with the roles settled.                               *)
ChecksEnd == Connects /\ Concludes /\ RolesSettle

(* What construct_valid_pair says of a pair whose check was seen from      *)
(* another address: it fails, because the pair discovered is better.  So   *)
(* the pair selected at the end has the address that the peer sees.        *)
BetterPairSelected ==
  \A x \in Agents : LET s == ag[x] IN
    s.state = "completed" => s.sel[1] = Path[x][s.sel[2]]
=============================================================================
