----------------------------- MODULE EventLoop -----------------------------
(***************************************************************************)
(* The one thread of the program: re_main of libre, with the timer list of *)
(* tmr.c, the table of file descriptor handlers, epoll, and the flag that  *)
(* the signal handler sets.  A handler (of a timer or of a descriptor) is  *)
(* a phase of the loop in which the application may start and cancel       *)
(* timers, listen to and close descriptors, and cancel the loop; setting   *)
(* up before re_main is such a phase too.                                  *)
(*                                                                         *)
(* The clock is gettimeofday: it may be set back while the loop runs.  The *)
(* time left of an epoll_wait does not depend on it.                       *)
(***************************************************************************)
EXTENDS Integers, FiniteSets, SequencesExt

CONSTANTS Timers, Fds,
          Delays,        \* delays given to tmr_start, in ms
          MaxWait,       \* the 300 ms of fd_poll
          MaxNow,        \* bound: the clock
          MaxArms,       \* bound: calls of tmr_start
          MaxOpens,      \* bound: calls of fd_listen
          MaxSetBack     \* bound: how often the clock is set back

VARIABLES
  now,      \* tmr_jiffies()
  setback,  \* how often the clock was set back
  tmrl,     \* re->tmrl, the timers from head to tail
  jfs,      \* tmr->jfs, 0 while the timer is not armed (it is not read then)
  th,       \* the timers whose tmr->th is not NULL
  arms,     \* history: calls of tmr_start
  stamp,    \* history: which call armed the timer
  fhs,      \* re->fhs[fd].fh: 0, or which call of fd_listen set it
  opens,    \* history: calls of fd_listen
  freed,    \* history: the registrations that fd_close has ended
  ready,    \* descriptors with an event that epoll would report
  batch,    \* the events of re->events that are not handled yet
  update,   \* re->update
  polling,  \* re->polling
  sig,      \* re->sig is set
  left,     \* ms left of the epoll_wait, Forever if it has no timeout, or 0
  snap,     \* jfs of the running tmr_poll, or 0
  pc        \* what the loop does

timerVars == <<tmrl, jfs, th, arms, stamp>>
fdVars == <<fhs, opens, freed, ready>>
waitVars == <<left, snap>>
vars == <<now, setback, timerVars, fdVars, batch, update, polling, sig, waitVars, pc>>

Forever == -1

Init ==
  /\ now = 0 /\ setback = 0
  /\ tmrl = <<>> /\ th = {} /\ jfs = [t \in Timers |-> 0]
  /\ arms = 0 /\ stamp = [t \in Timers |-> 0]
  /\ fhs = [f \in Fds |-> 0] /\ opens = 0 /\ freed = {} /\ ready = {}
  /\ batch = <<>> /\ update = TRUE
  /\ polling = TRUE /\ sig = FALSE
  /\ left = 0 /\ snap = 0
  /\ pc = "setup"

(* The application runs: before the loop, or in one of its handlers.       *)
InHandler == pc \in {"setup", "fd", "timer"}

(***************************************************************************)
(* Timers.                                                                 *)
(***************************************************************************)
Unlink(t) == IF t \in th THEN Remove(tmrl, t) ELSE tmrl

(* Faulty variant: a timer with no delay goes to the head of the list.     *)
Inserted_Head(list, t, delay) ==
  IF delay = 0 THEN <<t>> \o list
  ELSE InsertAt(list, 1 + SelectLastInSeq(list, LAMBDA u : jfs[u] <= now + delay), t)

(* The list with t inserted for the deadline now + delay: a delay of 0 is  *)
(* searched for from the head, any other from the tail.                    *)
Inserted(list, t, delay) ==
  IF delay = 0
  THEN LET i == SelectInSeq(list, LAMBDA u : jfs[u] > now)
       IN  IF i = 0 THEN Append(list, t) ELSE InsertAt(list, i, t)
  ELSE InsertAt(list, 1 + SelectLastInSeq(list, LAMBDA u : jfs[u] <= now + delay), t)

tmr_start(t, delay) ==
  /\ InHandler /\ arms < MaxArms /\ now + delay <= MaxNow
  /\ tmrl' = Inserted(Unlink(t), t, delay)
  /\ jfs' = [jfs EXCEPT ![t] = now + delay]
  /\ th' = th \cup {t}
  /\ arms' = arms + 1 /\ stamp' = [stamp EXCEPT ![t] = arms + 1]
  /\ UNCHANGED <<now, setback, fdVars, batch, update, polling, sig, waitVars, pc>>

tmr_cancel(t) ==
  /\ InHandler /\ t \in th
  /\ tmrl' = Unlink(t) /\ th' = th \ {t}
  /\ jfs' = [jfs EXCEPT ![t] = 0] /\ stamp' = [stamp EXCEPT ![t] = 0]
  /\ UNCHANGED <<arms, now, setback, fdVars, batch, update, polling,
                 sig, waitVars, pc>>

(***************************************************************************)
(* Descriptors.                                                            *)
(***************************************************************************)
fd_listen(f) ==
  /\ InHandler /\ opens < MaxOpens /\ fhs[f] = 0
  /\ opens' = opens + 1
  /\ fhs' = [fhs EXCEPT ![f] = opens + 1]
  /\ UNCHANGED <<freed, ready, now, setback, timerVars, batch, update, polling,
                 sig, waitVars, pc>>

(* The owner closes the descriptor: its events are gone from epoll, but    *)
(* not from the events that epoll_wait has already returned.               *)
fd_close(f) ==
  /\ InHandler /\ fhs[f] # 0
  /\ freed' = freed \cup {fhs[f]}
  /\ fhs' = [fhs EXCEPT ![f] = 0]
  /\ ready' = ready \ {f}
  /\ UNCHANGED <<opens, now, setback, timerVars, batch, update, polling, sig,
                 waitVars, pc>>

re_cancel ==
  /\ pc \in {"fd", "timer"} /\ polling
  /\ polling' = FALSE
  /\ UNCHANGED <<now, setback, timerVars, fdVars, batch, update, sig, waitVars, pc>>

(***************************************************************************)
(* The loop.                                                               *)
(***************************************************************************)
re_main ==
  /\ pc = "setup" /\ pc' = "top"
  /\ UNCHANGED <<now, setback, timerVars, fdVars, batch, update, polling, sig, waitVars>>

(* tmr_next_timeout and the limit of fd_poll; 0 would be no timeout.       *)
NextTimeout ==
  IF tmrl = <<>> THEN Forever
  ELSE IF jfs[Head(tmrl)] <= now THEN 1
  ELSE IF jfs[Head(tmrl)] - now > MaxWait THEN MaxWait ELSE jfs[Head(tmrl)] - now

(* A caught signal: main.c's handler cancels the loop.  Then the flag is   *)
(* tested, and the time to wait is computed.                               *)
Top ==
  /\ pc = "top"
  /\ polling' = (polling /\ ~sig) /\ sig' = FALSE
  /\ IF polling' THEN pc' = "before wait" /\ left' = NextTimeout
                 ELSE pc' = "stopped" /\ UNCHANGED left
  /\ UNCHANGED <<now, setback, timerVars, fdVars, batch, update, snap>>

Wait ==
  /\ pc = "before wait" /\ pc' = "wait"
  /\ UNCHANGED <<now, setback, timerVars, fdVars, batch, update, polling, sig, waitVars>>

(* epoll_wait returns all ready descriptors, in any order.                 *)
WaitEvents ==
  /\ pc = "wait" /\ ready # {}
  /\ batch' \in SetToSeqs(ready)
  /\ pc' = "events" /\ left' = 0
  /\ UNCHANGED <<now, setback, timerVars, fdVars, update, polling, sig, snap>>

(* Faulty variant: no descriptor event, no look at the timers.             *)
WaitTimeout_Skip ==
  /\ pc = "wait" /\ ready = {} /\ left = 0
  /\ pc' = "top"
  /\ UNCHANGED <<now, setback, timerVars, fdVars, batch, update, polling, sig, waitVars>>

WaitTimeout ==
  /\ pc = "wait" /\ ready = {} /\ left = 0
  /\ pc' = "poll" /\ snap' = now
  /\ UNCHANGED <<now, setback, timerVars, fdVars, batch, update, polling, sig, left>>

(* The rest of the events is dropped when the polling method was set,      *)
(* which poll_setup does once; epoll reports them again.                   *)
EventDone == /\ batch' = IF update THEN <<>> ELSE Tail(batch)
             /\ update' = FALSE

(* The next event: its handler is called if there is one.                  *)
Event ==
  /\ pc = "events" /\ batch # <<>>
  /\ IF fhs[Head(batch)] # 0 THEN pc' = "fd" /\ UNCHANGED <<batch, update>>
                             ELSE EventDone /\ UNCHANGED pc
  /\ UNCHANGED <<now, setback, timerVars, fdVars, polling, sig, waitVars>>

(* The handler has read what there was, or some of it.                     *)
FdReturn(all) ==
  /\ pc = "fd" /\ pc' = "events"
  /\ ready' = IF all THEN ready \ {Head(batch)} ELSE ready
  /\ EventDone
  /\ UNCHANGED <<now, setback, timerVars, fhs, opens, freed, polling, sig, waitVars>>

EventsDone ==
  /\ pc = "events" /\ batch = <<>>
  /\ pc' = "poll" /\ snap' = now
  /\ UNCHANGED <<now, setback, timerVars, fdVars, batch, update, polling, sig, left>>

(* tmr_poll: the head of the list, if it is due by the time it began.      *)
Fire ==
  /\ pc = "poll" /\ tmrl # <<>> /\ jfs[Head(tmrl)] <= snap
  /\ th' = th \ {Head(tmrl)} /\ tmrl' = Tail(tmrl)
  /\ pc' = "timer"
  /\ jfs' = [jfs EXCEPT ![Head(tmrl)] = 0] /\ stamp' = [stamp EXCEPT ![Head(tmrl)] = 0]
  /\ UNCHANGED <<arms, now, setback, fdVars, batch, update, polling,
                 sig, waitVars>>

TimerReturn ==
  /\ pc = "timer" /\ pc' = "poll"
  /\ UNCHANGED <<now, setback, timerVars, fdVars, batch, update, polling, sig, waitVars>>

PollDone ==
  /\ pc = "poll" /\ (tmrl # <<>> => jfs[Head(tmrl)] > snap)
  /\ pc' = "top" /\ snap' = 0
  /\ UNCHANGED <<now, setback, timerVars, fdVars, batch, update, polling, sig, left>>

(***************************************************************************)
(* The environment.                                                        *)
(***************************************************************************)
Tick ==
  /\ pc # "stopped" /\ (now < MaxNow \/ (pc = "wait" /\ left > 0))
  /\ now' = IF now < MaxNow THEN now + 1 ELSE now
  /\ left' = IF pc = "wait" /\ left > 0 THEN left - 1 ELSE left
  /\ UNCHANGED <<setback, timerVars, fdVars, batch, update, polling, sig, snap, pc>>

SetBack ==
  /\ pc # "stopped" /\ setback < MaxSetBack
  /\ \E t \in 0..(now - 1) : now' = t
  /\ setback' = setback + 1
  /\ UNCHANGED <<timerVars, fdVars, batch, update, polling, sig, waitVars, pc>>

Arrive(f) ==
  /\ pc # "stopped" /\ fhs[f] # 0 /\ f \notin ready
  /\ ready' = ready \cup {f}
  /\ UNCHANGED <<now, setback, timerVars, fhs, opens, freed, batch, update,
                 polling, sig, waitVars, pc>>

(* A signal that arrives while epoll_wait sleeps ends it with EINTR.       *)
Signal ==
  /\ pc \notin {"setup", "stopped"} /\ ~sig
  /\ sig' = TRUE
  /\ IF pc = "wait" THEN pc' = "top" /\ left' = 0 ELSE UNCHANGED <<pc, left>>
  /\ UNCHANGED <<now, setback, timerVars, fdVars, batch, update, polling, snap>>

(* The program has ended, or nothing but an event can wake it.             *)
Resting ==
  /\ pc = "stopped" \/ (pc = "wait" /\ left = Forever)
  /\ UNCHANGED vars

Application ==
  \/ \E t \in Timers : tmr_cancel(t) \/ \E d \in Delays : tmr_start(t, d)
  \/ \E f \in Fds : fd_listen(f) \/ fd_close(f)
  \/ re_cancel

Loop ==
  \/ re_main \/ Top \/ Wait \/ WaitEvents \/ WaitTimeout
  \/ Event \/ (\E all \in BOOLEAN : FdReturn(all)) \/ EventsDone
  \/ Fire \/ TimerReturn \/ PollDone

Environment == Tick \/ SetBack \/ Signal \/ \E f \in Fds : Arrive(f)

Next == Application \/ Loop \/ Environment \/ Resting

(* The thread runs, handlers return, and time passes.                      *)
Fairness == WF_vars(Loop) /\ WF_vars(Tick)

Spec == Init /\ [][Next]_vars /\ Fairness
-----------------------------------------------------------------------------
TypeOK ==
  /\ now \in 0..MaxNow /\ setback \in 0..MaxSetBack
  /\ tmrl \in Seq(Timers) /\ jfs \in [Timers -> 0..MaxNow] /\ th \subseteq Timers
  /\ arms \in 0..MaxArms /\ stamp \in [Timers -> 0..MaxArms]
  /\ fhs \in [Fds -> 0..MaxOpens] /\ opens \in 0..MaxOpens
  /\ freed \subseteq 1..MaxOpens /\ ready \subseteq Fds
  /\ batch \in Seq(Fds) /\ update \in BOOLEAN /\ polling \in BOOLEAN /\ sig \in BOOLEAN
  /\ left \in -1..MaxWait /\ snap \in 0..MaxNow
  /\ pc \in {"setup", "top", "before wait", "wait", "events", "fd", "poll",
             "timer", "stopped"}

(***************************************************************************)
(* The list holds every armed timer once, by deadline, and timers with the *)
(* same deadline in the order in which they were armed, however handlers   *)
(* start and cancel timers (tmr_start searches from both ends of the list) *)
(* and even when the clock is set back.                                    *)
(***************************************************************************)
ListOrder ==
  /\ ToSet(tmrl) = th /\ Len(tmrl) = Cardinality(th)
  /\ \A i, j \in 1..Len(tmrl) : i < j =>
       \/ jfs[tmrl[i]] < jfs[tmrl[j]]
       \/ jfs[tmrl[i]] = jfs[tmrl[j]] /\ stamp[tmrl[i]] < stamp[tmrl[j]]

(***************************************************************************)
(* The loop never sleeps without a timeout while a timer is armed, not     *)
(* even when the first timer is overdue (0 ms would mean no timeout), and  *)
(* never longer than the limit of fd_poll.                                 *)
(***************************************************************************)
SleepsWithTimeout ==
  pc \in {"before wait", "wait"} /\ th # {} => left \in 0..MaxWait

(***************************************************************************)
(* The handler of a closed descriptor is not called, although its event    *)
(* may still be among those that epoll_wait returned before the close.     *)
(***************************************************************************)
NoCallAfterClose ==
  pc' = "fd" /\ pc # "fd" => fhs[Head(batch)] \notin freed

(***************************************************************************)
(* "This function will only return when re_cancel() is called or an error  *)
(* occured": the loop stops only after a handler cancelled it or a signal  *)
(* arrived.                                                                *)
(***************************************************************************)
StopsWhenCancelled == pc' = "stopped" /\ pc # "stopped" => ~polling \/ sig

(***************************************************************************)
(* A timer that is armed is fired, cancelled or started again, or the loop *)
(* stops: neither a stream of descriptor events nor handlers that start    *)
(* other timers keep tmr_poll from it.                                     *)
(***************************************************************************)
TimersFire == \A t \in Timers : t \in th ~> (t \notin th \/ pc = "stopped")

(***************************************************************************)
(* A descriptor event is handled, although the events that follow a change *)
(* of the polling method in the same batch are dropped.                    *)
(***************************************************************************)
EventsServed ==
  \A f \in Fds : f \in ready ~>
    (fhs[f] = 0 \/ pc = "stopped" \/ (pc = "fd" /\ Head(batch) = f))

(***************************************************************************)
(* A signal stops the loop even if it arrives between the test of re->sig  *)
(* and epoll_wait, as long as a timer is armed: only a loop that sleeps    *)
(* with no timer at all can miss it.                                       *)
(***************************************************************************)
SignalStops == sig ~> (pc = "stopped" \/ (pc = "wait" /\ left = Forever))

(***************************************************************************)
(* re_cancel ends the loop: it is called by a handler, so the loop is      *)
(* awake and tests the flag before it sleeps again.                        *)
(***************************************************************************)
CancelStops == ~polling ~> pc = "stopped"
=============================================================================
