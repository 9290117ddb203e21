------------------------------ MODULE MnatIce -------------------------------
(***************************************************************************)
(* The ICE session of baresip's module ice (modules/ice/ice.c): it gathers *)
(* candidates for every media stream, with a STUN or TURN server or from   *)
(* the interfaces alone, and then runs the connectivity checks             *)
(* (IceAgent.tla) and reports their end.  Its owner is the peer connection *)
(* of peerconn.c, which drops the session from inside its handlers when it *)
(* is told of an error, or when the media encryption of a connected stream *)
(* cannot be started.                                                      *)
(***************************************************************************)
EXTENDS Integers, FiniteSets, Sequences

CONSTANTS Media,    \* the streams, in the order of the list medial
          Comps,    \* components of a stream: {1} with rtcp_mux, else {1, 2}
          Server,   \* "none", "stun" or "turn"
          Offerer   \* the session has the controlling role

Streams == {Media[i] : i \in 1..Len(Media)}

VARIABLES
  iface,      \* the host has an interface with a usable address
  alive,      \* the session exists
  resolving,  \* dnsq or tmr_async is pending
  estabh,     \* the handler is set
  started, reinvite,
  med,        \* med[m]: the struct mnat_media of stream m
  told,       \* results of the gathering the owner was given, in order
  again,      \* the handler was called after connectivity checks
  stale       \* the session was used after it was dropped

mnatVars == <<iface, alive, resolving, estabh, started, reinvite, med, told, again, stale>>

(* ct, wait, up: components whose binding request is pending, whose TURN   *)
(* allocation is pending, and whose allocation is in use; runs: the calls  *)
(* of conncheck_handler still to come, ok their result.                    *)
NewMedia == [gathered |-> FALSE, complete |-> FALSE, nstun |-> 0,
             ct |-> {}, wait |-> {}, up |-> {},
             formed |-> FALSE, runs |-> 0, ok |-> FALSE]

MnatInit ==
  /\ iface \in BOOLEAN /\ alive = TRUE /\ resolving = TRUE /\ estabh = TRUE
  /\ started = FALSE /\ reinvite = FALSE
  /\ med = [m \in Streams |-> NewMedia]
  /\ told = <<>> /\ again = FALSE /\ stale = FALSE

(* session_destructor and media_destructor.                                *)
Dropped == alive' = FALSE /\ med' = [m \in Streams |-> NewMedia] /\ resolving' = FALSE

(* The owner's mnat_estab_handler closes the peer connection on an error.  *)
Report(result, ms) ==
  /\ told' = Append(told, result)
  /\ IF result = "ok" THEN med' = ms /\ UNCHANGED <<alive, resolving>> ELSE Dropped

all_gathered(ms) == \A m \in Streams : ms[m].gathered

NoneLeft(r) == r.nstun = 0

(* call_gather_handler and gather_handler for stream m, whose fields are   *)
(* now r.  Without an interface there is no default candidate.             *)
Gather(m, r, err) ==
  LET ms == [med EXCEPT ![m] = [r EXCEPT !.gathered = NoneLeft(r) \/ @]]
      fails == err \/ ~iface
  IN  IF ~NoneLeft(r)
      THEN med' = [med EXCEPT ![m] = r] /\ UNCHANGED <<estabh, told, alive, resolving>>
      ELSE /\ estabh' = (estabh /\ ~fails)
           /\ IF estabh /\ (fails \/ all_gathered(ms))
              THEN Report(IF fails THEN "error" ELSE "ok", ms)
              ELSE med' = ms /\ UNCHANGED <<told, alive, resolving>>

(* Without a server: after two seconds.  An error drops the session while  *)
(* the loop over its streams goes on.                                      *)
tmr_async_handler ==
  /\ alive /\ resolving /\ Server = "none"
  /\ IF iface
     THEN /\ resolving' = FALSE /\ told' = Append(told, "ok")
          /\ med' = [m \in Streams |-> [med[m] EXCEPT !.gathered = TRUE]]
          /\ UNCHANGED <<alive, estabh, stale>>
     ELSE Report("error", med) /\ estabh' = FALSE /\ stale' = TRUE
  /\ UNCHANGED <<iface, started, reinvite, again>>

(* The server's address: every component sends its request.  An error, of  *)
(* the query or of a request, is reported at once.                         *)
dns_handler(err) ==
  LET sent(r) == IF Server = "turn" THEN [r EXCEPT !.wait = Comps, !.nstun = Cardinality(Comps)]
                 ELSE [r EXCEPT !.ct = Comps, !.nstun = Cardinality(Comps)]
  IN  /\ alive /\ resolving /\ Server # "none"
      /\ IF err THEN Report("error", med)
         ELSE /\ resolving' = FALSE /\ med' = [m \in Streams |-> sent(med[m])]
              /\ UNCHANGED <<told, alive>>
      /\ UNCHANGED <<iface, estabh, started, reinvite, again, stale>>

stun_resp_handler(m, c, err) ==
  /\ c \in med[m].ct
  /\ Gather(m, [med[m] EXCEPT !.ct = @ \ {c}, !.nstun = @ - 1], err)
  /\ UNCHANGED <<iface, started, reinvite, again, stale>>

Bind(r, c) == [r EXCEPT !.ct = @ \cup {c}, !.nstun = @ + 1]
CanBind(r, c, sends) == c \notin r.ct /\ sends

Answered(r, c) == [r EXCEPT !.nstun = @ - 1, !.wait = @ \ {c}, !.up = @ \ {c}]

(* The allocation works; the server may leave out the reflexive address.   *)
Allocated(m, c, mapped, sends) ==
  LET r == [Answered(med[m], c) EXCEPT !.up = @ \cup {c}]
      bind == ~mapped /\ iface
  IN  /\ c \in med[m].wait
      /\ Gather(m, IF bind /\ CanBind(r, c, sends) THEN Bind(r, c) ELSE r,
                bind /\ ~CanBind(r, c, sends))
      /\ UNCHANGED <<iface, started, reinvite, again, stale>>

(* Faulty variant: the error of the binding request is dropped.            *)
AllocFailed_Return(m, c, code, sends) ==
  LET r == Answered(med[m], c)
  IN  /\ c \in med[m].wait \/ (c \in med[m].up /\ med[m].gathered)
      /\ IF code
         THEN /\ med' = [med EXCEPT ![m] = IF CanBind(r, c, sends) THEN Bind(r, c) ELSE r]
              /\ UNCHANGED <<estabh, told, alive, resolving>>
         ELSE Gather(m, r, TRUE)
      /\ UNCHANGED <<iface, started, reinvite, again, stale>>

(* The allocation fails, or is lost later: refreshing it or binding a      *)
(* channel failed.  (The first refresh comes after 45 seconds; by then the *)
(* gathering is over.)  On an error response a binding request is tried.   *)
AllocFailed(m, c, code, sends) ==
  LET r == Answered(med[m], c)
  IN  /\ c \in med[m].wait \/ (c \in med[m].up /\ med[m].gathered)
      /\ IF code /\ CanBind(r, c, sends)
         THEN med' = [med EXCEPT ![m] = Bind(r, c)] /\ UNCHANGED <<estabh, told, alive, resolving>>
         ELSE Gather(m, r, TRUE)
      /\ UNCHANGED <<iface, started, reinvite, again, stale>>

turnc_handler(m, c) ==
  \E b, sends \in BOOLEAN : Allocated(m, c, b, sends) \/ AllocFailed(m, c, b, sends)

(* The owner has both descriptions.  active: the streams that are not      *)
(* disabled; formed of them get their list of checks, up to the first that *)
(* fails.  A second call after a failure finds the first list formed.      *)
ice_start(active, bad) ==
  LET Fails == {i \in 1..Len(Media) : Media[i] \in active /\ (Media[i] \in bad \/ med[Media[i]].formed)}
      First == IF Fails = {} THEN 0 ELSE CHOOSE i \in Fails : \A j \in Fails : i <= j
      upto == IF First = 0 THEN Len(Media) ELSE First - 1
      reached == {Media[i] : i \in 1..upto}
  IN  /\ alive /\ ~started /\ told # <<>>
      /\ started' = (First = 0)
      /\ \E good \in SUBSET Streams, runs \in [Streams -> 1..2] :
           med' = [m \in Streams |->
                     IF m \in reached \cap active
                     THEN [med[m] EXCEPT !.complete = FALSE, !.formed = TRUE,
                                         !.runs = runs[m], !.ok = m \in good]
                     ELSE IF m \in reached THEN [med[m] EXCEPT !.complete = TRUE]
                     ELSE IF First # 0 /\ m = Media[First] THEN [med[m] EXCEPT !.complete = FALSE]
                     ELSE med[m]]
      /\ UNCHANGED <<iface, alive, resolving, estabh, reinvite, told, again, stale>>

(* Faulty variant: one connected stream is enough.                         *)
all_completed_One(ms) == \E m \in Streams : ms[m].complete

all_completed(ms) == \A m \in Streams : ms[m].complete

(* What conncheck_handler reads of the session after connh.                *)
Looks(complete) == complete

(* The checks of a stream have ended once more.                            *)
Checked(r) == [r EXCEPT !.runs = @ - 1, !.complete = @ \/ r.ok]

(* The checks of a stream end.  With success the owner starts the media    *)
(* encryption; if that fails it drops the session, and the handler goes on.*)
conncheck_handler(m, changed, enc) ==
  LET ms == [med EXCEPT ![m] = Checked(med[m])]
      complete == all_completed(ms)
      asks == reinvite \/ changed
  IN  /\ med[m].runs > 0
      /\ IF ~med[m].ok
         THEN med' = ms /\ UNCHANGED <<alive, resolving, reinvite, again, stale>>
         ELSE IF ~enc
         THEN Dropped /\ stale' = (stale \/ Looks(complete)) /\ UNCHANGED <<reinvite, again>>
         ELSE /\ med' = ms /\ reinvite' = (asks /\ ~(complete /\ Offerer))
              /\ again' = (again \/ (complete /\ asks /\ Offerer))
              /\ UNCHANGED <<alive, resolving, stale>>
      /\ UNCHANGED <<iface, estabh, started, told>>

(* The owner drops the session: the call is over.                          *)
Release ==
  /\ alive /\ Dropped
  /\ UNCHANGED <<iface, estabh, started, reinvite, told, again, stale>>

MnatRests == ~alive /\ UNCHANGED mnatVars

Resolved == tmr_async_handler \/ \E err \in BOOLEAN : dns_handler(err)
Answer(m, c) == (\E err \in BOOLEAN : stun_resp_handler(m, c, err))
                  \/ (c \in med[m].wait /\ turnc_handler(m, c))

MnatNext ==
  \/ Resolved
  \/ \E m \in Streams, c \in Comps : (\E err \in BOOLEAN : stun_resp_handler(m, c, err)) \/ turnc_handler(m, c)
  \/ \E active, bad \in SUBSET Streams : ice_start(active, bad)
  \/ \E m \in Streams, changed, enc \in BOOLEAN : conncheck_handler(m, changed, enc)
  \/ Release
  \/ MnatRests

MnatSpec == MnatInit /\ [][MnatNext]_mnatVars

(* The query and the timer come to an end, and so does every transaction   *)
(* (Stun.tla).                                                             *)
MnatFairSpec == MnatSpec /\ WF_mnatVars(Resolved) /\ \A m \in Streams, c \in Comps : WF_mnatVars(Answer(m, c))

(***************************************************************************)
(* Properties.                                                             *)
(***************************************************************************)
Flags ==
  /\ iface \in BOOLEAN /\ alive \in BOOLEAN /\ resolving \in BOOLEAN /\ estabh \in BOOLEAN
  /\ started \in BOOLEAN /\ reinvite \in BOOLEAN /\ again \in BOOLEAN /\ stale \in BOOLEAN

MnatTypeOK ==
  /\ Flags
  /\ \A m \in Streams : /\ med[m].ct \cup med[m].wait \cup med[m].up \subseteq Comps
                        /\ med[m].nstun \in -Cardinality(Comps)..Cardinality(Comps)

(* The owner hears once of the end of the gathering, whatever allocations  *)
(* are lost later; and of success only when every stream has its           *)
(* candidates and no request of the gathering is pending.                  *)
ToldOnce ==
  /\ Len(told) <= 1
  /\ told = <<"ok">> /\ alive => \A m \in Streams : med[m].gathered /\ med[m].wait = {}
  /\ told = <<"ok">> => estabh

(* The session does not wait for nothing: while the owner has not heard,   *)
(* the address or some request is pending.                                 *)
NotForgotten ==
  alive /\ told = <<>> =>
    resolving \/ \E m \in Streams : med[m].ct \cup med[m].wait # {}

(* What the proofs take from the constants: a session has a stream, and a  *)
(* stream a component.                                                     *)
MnatAssumption == Streams # {} /\ IsFiniteSet(Comps) /\ Comps # {}

MediaRecs == [gathered : BOOLEAN, complete : BOOLEAN, nstun : Int,
              ct : SUBSET Comps, wait : SUBSET Comps, up : SUBSET Comps,
              formed : BOOLEAN, runs : Int, ok : BOOLEAN]

(* The counter of a stream.  While it gathers, nstun counts the requests   *)
(* that are pending.  Allocations that are lost later make it negative: it *)
(* does not get to 0 a second time, and call_gather_handler stays silent.  *)
Counted(r) ==
  IF r.gathered
  THEN /\ r.wait = {} /\ r.nstun <= 0
       /\ r.nstun + Cardinality(Comps) >= Cardinality(r.ct) + Cardinality(r.up)
  ELSE r.ct \cap r.wait = {} /\ r.nstun = Cardinality(r.ct) + Cardinality(r.wait)

Quiet(r) == r.ct = {} /\ r.wait = {} /\ r.up = {}

(***************************************************************************)
(* The inductive invariant of the gathering: what is pending is counted    *)
(* (call_gather_handler, stun_resp_handler, turnc_handler), the owner was  *)
(* told when the last stream was done, and a session that was dropped has  *)
(* nothing pending (session_destructor).                                   *)
(***************************************************************************)
MnatInv ==
  /\ Flags
  /\ med \in [Streams -> MediaRecs]
  /\ told \in {<<>>, <<"ok">>, <<"error">>}
  /\ \A m \in Streams :
       /\ Counted(med[m])
       /\ ~alive => Quiet(med[m]) /\ ~med[m].gathered
       /\ resolving => Quiet(med[m]) /\ ~med[m].gathered
       /\ alive /\ ~resolving /\ ~med[m].gathered => med[m].nstun > 0
  /\ resolving => alive /\ told = <<>>
  /\ told \in {<<>>, <<"ok">>} => estabh
  /\ told = <<>> /\ alive => \E m \in Streams : ~med[m].gathered
  /\ told = <<"ok">> /\ alive => \A m \in Streams : med[m].gathered
  /\ told = <<"error">> => ~alive

(* What holds of the session at all times (modules/ice/ice.c).             *)
GatherKept == MnatInv /\ MnatTypeOK /\ ToldOnce /\ NotForgotten

(* The owner renegotiates only when every stream is connected.             *)
AsksAfterAll == again # again' => \A m \in Streams : med'[m].complete

(* The handlers go on with a session that their callback has dropped in    *)
(* two cases only: without any interface, and when the encryption of the   *)
(* stream that completes the session fails.                                *)
StaleExplained ==
  stale # stale' => \/ ~iface
                    \/ \E m \in Streams : \A n \in Streams \ {m} : med[n].complete

(* The gathering ends, if the owner does not end the session before.       *)
GatherEnds == <>(told # <<>> \/ ~alive)
=============================================================================
