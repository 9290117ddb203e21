----------------------------- MODULE MCCallLive -----------------------------
(***************************************************************************)
(* What the parts of a call bring to an end, one component at a time: a    *)
(* behaviour belongs to one scenario, in which one component runs and the  *)
(* others stay as they start.  Fairness is that of the component.          *)
(***************************************************************************)
EXTENDS Integers, Sequences

CONSTANT Nil

VARIABLES
  sc,
  jb, strm, j_net, dec, top, j_last, told, lag, renew,
  end, outcome, d_net, updates,
  req, ct, st, net, seen,
  g, reg, srv, wire, late

jbufV == <<jb, strm, j_net, dec, top, j_last, told, lag, renew>>
dtlsV == <<end, outcome, d_net, updates>>
transV == <<req, ct, st, net, seen>>
regV == <<g, reg, srv, wire, late>>

all == <<sc, jbufV, dtlsV, transV, regV>>
-----------------------------------------------------------------------------
Playing == INSTANCE Jbuf WITH
  net <- j_net, last <- j_last, Mod16 <- 16, Ssrcs <- {"s1"}, CfgMin <- 1,
  CfgMax <- 4, CfgWish <- 2, Adaptive <- TRUE, Jump <- 1, Reach <- 0, MaxLag <- 2,
  MaxRenew <- 0, LostMax <- 4, Back <- 3, None <- Nil

Shaking == INSTANCE Dtls WITH
  net <- d_net, MaxTries <- 1, MaxUpdates <- 1, SdpAddr <- {"offerer", "answerer"},
  Outcomes <- {"match", "mismatch", "nokeys"}, RoomEnds <- {}

(* A request that is not an INVITE, with a second server; an INVITE.       *)
Other == INSTANCE SipTrans WITH
  Method <- "OPTIONS", Targets <- <<<<1>>, <<2>>>>, MayFail <- {1}, Reliable <- FALSE,
  T2 <- 2, T4 <- 2, T64 <- 4, CompleteWait <- 4
Invite == INSTANCE SipTrans WITH
  Method <- "INVITE", Targets <- <<<<1>>>>, MayFail <- {1}, Reliable <- FALSE,
  T2 <- 2, T4 <- 1, T64 <- 2, CompleteWait <- 2

(* A registration that replaces another one.                                *)
Bound == INSTANCE SipReg WITH
  MaxGen <- 2, RegInt <- 40, Granted <- {60}, MinExp <- 0, FbRegInt <- 0, RWait <- 90,
  Modulus <- 65536, MaxLoops <- 2, MaxLate <- 0, Codes <- {200}
-----------------------------------------------------------------------------
(* The components start, those that do not run in one of the ways they may. *)
LiveInit ==
  /\ sc \in {"playing", "shaking", "other", "invite", "bound"}
  /\ Playing!Init /\ (sc = "playing" \/ top.seq = 0)
  /\ Shaking!Init /\ (sc = "shaking" \/ outcome = [e \in Shaking!Ends |-> "match"])
  /\ IF sc = "other" THEN Other!Init ELSE Invite!Init
  /\ Bound!Init

(* A step of the component of a scenario, the only one that moves.         *)
PlayingStep(A) == sc = "playing" /\ A /\ UNCHANGED <<sc, dtlsV, transV, regV>>
ShakingStep(A) == sc = "shaking" /\ A /\ UNCHANGED <<sc, jbufV, transV, regV>>
TransStep(s, A) == sc = s /\ A /\ UNCHANGED <<sc, jbufV, dtlsV, regV>>
RegStep(A) == sc = "bound" /\ A /\ UNCHANGED <<sc, jbufV, dtlsV, transV>>

LiveNext ==
  \/ PlayingStep(Playing!Next) \/ ShakingStep(Shaking!Next)
  \/ TransStep("other", Other!Next) \/ TransStep("invite", Invite!Next)
  \/ RegStep(Bound!Next)
  \/ (sc \in {"shaking", "bound"} /\ UNCHANGED all)

(* The fairness of each component (Jbuf, Dtls, SipTrans, SipReg).  At most *)
(* one scenario's part can be enabled.                                     *)
LiveFair ==
  /\ WF_all(PlayingStep(Playing!Flush) \/ ShakingStep(Shaking!Timeout("offerer"))
            \/ TransStep("other", Other!Resolved) \/ TransStep("invite", Invite!Resolved)
            \/ RegStep(Bound!tmr_handler(1)))
  /\ WF_all(PlayingStep(Playing!CheckSsrc) \/ ShakingStep(Shaking!Timeout("answerer"))
            \/ TransStep("other", Other!CtTimer) \/ TransStep("invite", Invite!CtTimer)
            \/ RegStep(Bound!Answer(1)))
  /\ WF_all(PlayingStep(Playing!Put)
            \/ TransStep("other", Other!CtRetransmit) \/ TransStep("invite", Invite!CtRetransmit)
            \/ RegStep(Bound!Serve(1)))
  /\ WF_all(PlayingStep(Playing!DecodeHere)
            \/ TransStep("other", Other!StTimer) \/ TransStep("invite", Invite!StTimer)
            \/ RegStep(Bound!tmr_handler(2)))
  /\ WF_all(PlayingStep(Playing!Decode)
            \/ TransStep("other", Other!StRetransmit) \/ TransStep("invite", Invite!StRetransmit)
            \/ RegStep(Bound!Answer(2)))
  /\ WF_all(PlayingStep(Playing!Lost)
            \/ TransStep("other", Other!addr_handler) \/ TransStep("invite", Invite!addr_handler)
            \/ RegStep(Bound!Serve(2)))
  /\ SF_all(PlayingStep(Playing!ArriveNew)
            \/ TransStep("other", Other!Tick) \/ TransStep("invite", Invite!Tick))

LiveSpec == LiveInit /\ [][LiveNext]_all /\ LiveFair
-----------------------------------------------------------------------------
(* The parts of a call go on and end: frames are played while packets      *)
(* come, a handshake ends, a cancelled or any other request ends, a        *)
(* registration that stays is bound again and again and one that is let go *)
(* ends (jbuf.c, dtls_srtp.c, request.c, ctrans.c, reg.c).                 *)
CallProgress ==
  /\ sc = "playing" => Playing!KeepsPlaying
  /\ sc = "shaking" => Shaking!HandshakeEnds
  /\ sc = "other" => Other!OtherEnds
  /\ sc = "invite" => Invite!CancelEnds
  /\ sc = "bound" => Bound!BoundAgain /\ Bound!EndingEnds
=============================================================================
