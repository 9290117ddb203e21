------------------------------- MODULE MCCall -------------------------------
(***************************************************************************)
(* The parts of a call, one at a time, for model checking: a behaviour     *)
(* belongs to one scenario, in which one component runs with constants of  *)
(* its own.  The variables of the other components are 0, those of Replay  *)
(* and Dtls as these start.                                                *)
(***************************************************************************)
EXTENDS Replay, Dtls, Sequences

CONSTANT Nil

VARIABLES
  sc,
  start, tx, sent, rx, hi, got, cgot, s_last,
  jb, strm, j_net, dec, top, j_last, told, lag, renew,
  req, ct, st, t_net, t_seen,
  g, reg, srv, wire, late

srtpV == <<start, tx, sent, rx, hi, got, cgot, s_last>>
jbufV == <<jb, strm, j_net, dec, top, j_last, told, lag, renew>>
transV == <<req, ct, st, t_net, t_seen>>
regV == <<g, reg, srv, wire, late>>

all == <<sc, listVars, srtpV, jbufV, vars, transV, regV>>
-----------------------------------------------------------------------------
(* One stream under HMAC and under GCM; two streams, one more than the     *)
(* receiver keeps.  The window is that of Replay.                          *)
Stream == INSTANCE Srtp WITH
  last <- s_last, SeqMod <- 8, RtcpMod <- 64, SRTP_MAX_STREAMS <- 1,
  Ssrcs <- {"s1"}, Mode <- "ctr", MaxPkt <- 14, MaxRtcp <- 0, None <- Nil
Gcm == INSTANCE Srtp WITH
  last <- s_last, SeqMod <- 8, RtcpMod <- 64, SRTP_MAX_STREAMS <- 1,
  Ssrcs <- {"s1"}, Mode <- "gcm", MaxPkt <- 12, MaxRtcp <- 1, None <- Nil
Streams == INSTANCE Srtp WITH
  last <- s_last, SeqMod <- 6, RtcpMod <- 64, SRTP_MAX_STREAMS <- 1,
  Ssrcs <- {"s1", "s2"}, Mode <- "ctr", MaxPkt <- 3, MaxRtcp <- 2, None <- Nil

(* A fixed buffer whose source changes; an adaptive one.                   *)
Fixed == INSTANCE Jbuf WITH
  net <- j_net, last <- j_last, Mod16 <- 16, Ssrcs <- {"s1", "s2"}, CfgMin <- 2,
  CfgMax <- 3, CfgWish <- 2, Adaptive <- FALSE, Jump <- 2, Reach <- 2, MaxLag <- 2,
  MaxRenew <- 1, LostMax <- 4, Back <- 3, None <- Nil
Adaptive == INSTANCE Jbuf WITH
  net <- j_net, last <- j_last, Mod16 <- 16, Ssrcs <- {"s1"}, CfgMin <- 1,
  CfgMax <- 4, CfgWish <- 2, Adaptive <- TRUE, Jump <- 1, Reach <- 2, MaxLag <- 3,
  MaxRenew <- 0, LostMax <- 4, Back <- 3, None <- Nil

(* An INVITE over UDP; over TCP, with a second server to fail over to.     *)
(* As in the code, where the last repetition is due at 63 and the end at   *)
(* 64, none is due at T64 itself.                                          *)
Invite == INSTANCE SipTrans WITH
  net <- t_net, seen <- t_seen, Method <- "INVITE", Targets <- <<<<1>>>>,
  MayFail <- {0, 1}, Reliable <- FALSE, T2 <- 2, T4 <- 3, T64 <- 6, CompleteWait <- 6
Failover == INSTANCE SipTrans WITH
  net <- t_net, seen <- t_seen, Method <- "INVITE", Targets <- <<<<1>>, <<2>>>>,
  MayFail <- {0, 1, 2}, Reliable <- TRUE, T2 <- 2, T4 <- 2, T64 <- 4, CompleteWait <- 4

(* A registration that is renewed and replaced; a fallback check.          *)
Renewed == INSTANCE SipReg WITH
  MaxGen <- 2, RegInt <- 40, Granted <- {30}, MinExp <- 50, FbRegInt <- 0,
  RWait <- 90, Modulus <- 65536, MaxLoops <- 2, MaxLate <- 1, Codes <- {200, 423}
Fallback == INSTANCE SipReg WITH
  MaxGen <- 2, RegInt <- 0, Granted <- {30}, MinExp <- 0, FbRegInt <- 30,
  RWait <- 90, Modulus <- 65536, MaxLoops <- 2, MaxLate <- 1, Codes <- {200, 401, 500}
-----------------------------------------------------------------------------
(* What the variables of a component are while another one runs.           *)
NoReplay == ListInit
NoSrtp ==
  /\ start = 0 /\ tx = 0 /\ sent = 0 /\ rx = 0 /\ hi = 0 /\ got = 0
  /\ cgot = 0 /\ s_last = 0
NoJbuf ==
  /\ jb = 0 /\ strm = 0 /\ j_net = 0 /\ dec = 0 /\ top = 0 /\ j_last = 0
  /\ told = 0 /\ lag = 0 /\ renew = 0
NoDtls == Init /\ outcome = [e \in Ends |-> "match"]
NoTrans ==
  /\ req = 0 /\ ct = 0 /\ st = 0 /\ t_net = 0 /\ t_seen = 0
NoReg ==
  /\ g = 0 /\ reg = 0 /\ srv = 0 /\ wire = 0 /\ late = 0

(* Checking and keying fail at one end at most.                            *)
OneFails == \E e \in Ends : outcome[e] = "match"

CallInit ==
  \/ /\ sc = "replay" /\ ListInit
     /\ NoSrtp /\ NoJbuf /\ NoDtls /\ NoTrans /\ NoReg
  \/ /\ \/ sc = "stream" /\ Stream!SrtpInit
        \/ sc = "gcm" /\ Gcm!SrtpInit
        \/ sc = "streams" /\ Streams!SrtpInit
     /\ NoReplay /\ NoJbuf /\ NoDtls /\ NoTrans /\ NoReg
  \/ /\ \/ sc = "fixed" /\ Fixed!Init
        \/ sc = "adaptive" /\ Adaptive!Init
     /\ NoReplay /\ NoSrtp /\ NoDtls /\ NoTrans /\ NoReg
  \/ /\ sc = "dtls" /\ Init /\ OneFails
     /\ NoReplay /\ NoSrtp /\ NoJbuf /\ NoTrans /\ NoReg
  \/ /\ \/ sc = "invite" /\ Invite!Init
        \/ sc = "failover" /\ Failover!Init
     /\ NoReplay /\ NoSrtp /\ NoJbuf /\ NoDtls /\ NoReg
  \/ /\ \/ sc = "renewed" /\ Renewed!Init
        \/ sc = "fallback" /\ Fallback!Init
     /\ NoReplay /\ NoSrtp /\ NoJbuf /\ NoDtls /\ NoTrans

(* Scenarios that come to an end: the call or the registration is over.    *)
Ended == sc \in {"dtls", "renewed", "fallback"}

CallNext ==
  /\ UNCHANGED sc
  /\ \/ /\ sc = "replay" /\ ListNext
        /\ UNCHANGED <<srtpV, jbufV, vars, transV, regV>>
     \/ /\ \/ sc = "stream" /\ Stream!SrtpNext
           \/ sc = "gcm" /\ Gcm!SrtpNext
           \/ sc = "streams" /\ Streams!SrtpNext
        /\ UNCHANGED <<listVars, jbufV, vars, transV, regV>>
     \/ /\ \/ sc = "fixed" /\ Fixed!Next
           \/ sc = "adaptive" /\ Adaptive!Next
        /\ UNCHANGED <<listVars, srtpV, vars, transV, regV>>
     \/ /\ sc = "dtls" /\ Next
        /\ UNCHANGED <<listVars, srtpV, jbufV, transV, regV>>
     \/ /\ \/ sc = "invite" /\ Invite!Next
           \/ sc = "failover" /\ Failover!Next
        /\ UNCHANGED <<listVars, srtpV, jbufV, vars, regV>>
     \/ /\ \/ sc = "renewed" /\ Renewed!Next
           \/ sc = "fallback" /\ Fallback!Next
        /\ UNCHANGED <<listVars, srtpV, jbufV, vars, transV>>
     \/ Ended /\ UNCHANGED all

CallSpec == CallInit /\ [][CallNext]_all
-----------------------------------------------------------------------------
(* SRTP: the receiver stays in step with the sender and uses the index the *)
(* packet was sent with, through losses, reordering and roll-overs         *)
(* (srtp_get_index, srtp_encrypt, srtp_decrypt).                           *)
SrtpKept ==
  /\ sc = "stream" => Stream!SrtpAssumption /\ Stream!SrtpTypeOK /\ Stream!SrtpKept
  /\ sc = "gcm" => Gcm!SrtpAssumption /\ Gcm!SrtpKept
  /\ sc = "streams" => Streams!SrtpAssumption /\ Streams!SrtpKept

(* The jitter buffer loses no frame, stays sorted and holds one source     *)
(* (jbuf_put, jbuf_get, jbuf_flush).                                       *)
JbufKept ==
  /\ sc = "fixed" => Fixed!TypeOK /\ Fixed!FramesKept /\ Fixed!Sorted
  /\ sc = "adaptive" => Adaptive!TypeOK /\ Adaptive!FramesKept /\ Adaptive!Sorted

(* What no step may do to media: refuse a packet without cause, hand one   *)
(* up twice, play frames out of order (but after number 0), or tell the    *)
(* decoder of losses that did not happen (srtp_decrypt, srtcp_decrypt,     *)
(* jbuf_get, lostcalc).                                                    *)
MediaSteps ==
  [][/\ sc = "stream" => Stream!RefusedExplained /\ Stream!OnceOnly
     /\ sc = "gcm" => Gcm!RefusedExplained /\ Gcm!OnceOnly
     /\ sc = "streams" => /\ Streams!RefusedExplained /\ Streams!OnceOnly
                          /\ Streams!RtcpOnceOnly
     /\ sc = "fixed" => Fixed!OrderButAtZero /\ Fixed!NoFalseLoss
     /\ sc = "adaptive" => Adaptive!OrderButAtZero]_all

(* SIP transactions: the owner learns one outcome and is not forgotten,    *)
(* somebody will end a live request, and a server's user gets it once      *)
(* (request.c, ctrans.c, strans.c).                                        *)
TransKept ==
  /\ sc = "invite" => /\ Invite!TypeOK /\ Invite!ToldOnce /\ Invite!NotForgotten
                      /\ Invite!SomebodyWaits /\ Invite!SeenOnce /\ Invite!RejectionAbsorbed
  /\ sc = "failover" => Failover!ToldOnce /\ Failover!SomebodyWaits /\ Failover!SeenOnce

(* A request cancelled while a server is asked asks no further one, and    *)
(* one cancelled while a name is looked up asks one at most                *)
(* (response_handler, addr_handler and request_next of request.c).         *)
CancelKept == sc = "failover" => Failover!CancelStops

(* SIP registration: an object waits for one thing, refreshes before the   *)
(* server forgets, and leaves no binding behind; with the inductive        *)
(* invariant behind the three (reg.c of libre).                            *)
RegKept ==
  /\ sc = "renewed" => Renewed!RegAssumption /\ Renewed!TypeOK /\ Renewed!RegKept
  /\ sc = "fallback" => Fallback!RegAssumption /\ Fallback!RegKept
=============================================================================
