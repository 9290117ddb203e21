-------------------------------- MODULE Srtp --------------------------------
(***************************************************************************)
(* SRTP as src/re/src/srtp implements it: a sender (srtp_encrypt), a        *)
(* network that loses, repeats and reorders packets, and a receiver         *)
(* (srtp_decrypt) that rebuilds the packet index from the 16 bits the       *)
(* packet carries, its roll-over counter and the highest number seen.       *)
(*                                                                          *)
(* Numbers keep the proportions of the code: with SeqMod for 2^16, an int   *)
(* and the roll-over counter have SeqMod^2 values, an index SeqMod^4.       *)
(* The n-th packet of a stream carries (start + n) % SeqMod; its true index *)
(* is start + n.  The cipher and the tags are abstracted to what they       *)
(* depend on: a tag verifies when both ends used the same counter (HMAC)    *)
(* or the same index (GCM), a payload is right when both used one index.    *)
(***************************************************************************)
EXTENDS ReplayList, Sequences, FiniteSets

CONSTANTS
    SeqMod,             \* 2^16
    RtcpMod,            \* 2^31, the SRTCP index
    SRTP_MAX_STREAMS,   \* 8
    Ssrcs,              \* the streams that exist
    Mode,               \* "ctr" (AES_MODE_CTR with an HMAC) or "gcm"
    MaxPkt,             \* bound: RTP packets per stream
    MaxRtcp,            \* bound: RTCP packets per stream
    None

Half   == SeqMod \div 2
IntMod == SeqMod * SeqMod
IxMod  == IntMod * IntMod

VARIABLES
    start,      \* the first sequence number of each stream
    tx,         \* the sender's srtp_stream of each stream
    sent,       \* the packets of each stream, in the order they were sent
    rx,         \* the receiver's srtp_stream of each stream, or None
    hi,         \* history: the newest packet accepted, 0 before the first
    got,        \* history: the packets accepted, as far back as any arrives
    cgot,       \* history: the SRTCP packets accepted
    last        \* what became of the packet that arrived last

srtpVars == <<start, tx, sent, rx, hi, got, cgot, last>>

-----------------------------------------------------------------------------
\* stream_new: a zeroed stream
NewStream == [roc |-> 0, s_l |-> 0, s_l_set |-> FALSE, rtcp_index |-> 0,
              replay_rtp |-> srtp_replay_init, replay_rtcp |-> srtp_replay_init]

\* stream_get finds a stream or makes one; at the limit it makes none (ENOSR)
Room(streams, s) ==
    streams[s] # None \/ Cardinality({t \in Ssrcs : streams[t] # None}) < SRTP_MAX_STREAMS

stream_get(streams, s) == IF streams[s] = None THEN NewStream ELSE streams[s]

\* stream_get_seq: "Set the initial sequence number once only"
stream_get_seq(strm, seq) ==
    IF strm.s_l_set THEN strm ELSE [strm EXCEPT !.s_l = seq, !.s_l_set = TRUE]

seq_diff(x, y) == y - x

RollOver_Keep(strm) == [strm EXCEPT !.roc = (@ + 1) % IntMod]

\* strm->roc++; strm->s_l = 0
RollOver(strm) == [strm EXCEPT !.roc = (@ + 1) % IntMod, !.s_l = 0]

\* if (hdr.seq > strm->s_l) strm->s_l = hdr.seq
Advance(strm, seq) == [strm EXCEPT !.s_l = IF seq > @ THEN seq ELSE @]

\* conversion of a value to int, which wraps
AsInt(n) == LET m == n % IntMod IN IF m < IntMod \div 2 THEN m ELSE m - IntMod

\* srtp_get_index: computed in int, returned as uint64_t
srtp_get_index(roc, s_l, seq) ==
    LET v == CASE s_l < Half /\ seq - s_l > Half     -> (roc - 1) % IntMod
               [] s_l >= Half /\ s_l - Half > seq    -> (roc + 1) % IntMod
               [] OTHER                              -> roc
    IN  (seq + AsInt(AsInt(v) * SeqMod)) % IxMod

-----------------------------------------------------------------------------
SrtpInit == /\ start \in [Ssrcs -> 0 .. (Half - 1)]
            /\ tx = [s \in Ssrcs |-> NewStream]
            /\ sent = [s \in Ssrcs |-> <<>>]
            /\ rx = [s \in Ssrcs |-> None]
            /\ hi = [s \in Ssrcs |-> 0]
            /\ got = [s \in Ssrcs |-> {}]
            /\ cgot = [s \in Ssrcs |-> {}]
            /\ last = None

\* srtp_encrypt of the next packet of a stream
srtp_encrypt(s) ==
    LET n    == Len(sent[s])
        seq  == (start[s] + n) % SeqMod
        strm == stream_get_seq(tx[s], seq)
        at   == IF seq_diff(strm.s_l, seq) <= -Half THEN RollOver(strm) ELSE strm
    IN  /\ n < MaxPkt
        /\ sent' = [sent EXCEPT ![s] = Append(@,
                      [seq |-> seq, roc |-> at.roc, ix |-> SeqMod * at.roc + seq])]
        /\ tx' = [tx EXCEPT ![s] = Advance(at, seq)]
        /\ UNCHANGED <<start, rx, hi, got, cgot, last>>

(***************************************************************************)
(* What the network does: packet n of a stream arrives, again or for the    *)
(* first time, while it is less than half the number space from the newest  *)
(* one accepted.  Farther apart, 16 bits cannot tell packets apart.         *)
(***************************************************************************)
InReach(s, n) == n < Len(sent[s]) /\ n <= hi[s] + Half /\ n > hi[s] - Half

\* the tag: over the counter of the stream, or made with the index
Authentic(p, strm, ix) == IF Mode = "gcm" THEN p.ix = ix ELSE p.roc = strm.roc

Refuse(s, n, res) == /\ last' = [ssrc |-> s, n |-> n, res |-> res]
                     /\ UNCHANGED <<hi, got>>

Accept(s, n, ix) ==
    LET h == IF n > hi[s] THEN n ELSE hi[s]
    IN  /\ last' = [ssrc |-> s, n |-> n, res |-> "ok"]
        /\ hi' = [hi EXCEPT ![s] = h]
        /\ got' = [got EXCEPT ![s] = {g \in @ \cup {[n |-> n, ix |-> ix]} : g.n > h - Half}]

\* srtp_decrypt of packet n of a stream
srtp_decrypt(s, n) ==
    LET p    == sent[s][n + 1]
        strm == stream_get_seq(stream_get(rx, s), p.seq)
        diff == seq_diff(strm.s_l, p.seq)
        at   == IF diff <= -Half THEN RollOver(strm) ELSE strm
        ix   == srtp_get_index(at.roc, at.s_l, p.seq)
        list == srtp_replay_check(at.replay_rtp, ix)
    IN  /\ InReach(s, n)
        /\ UNCHANGED <<start, tx, sent, cgot>>
        /\ IF ~Room(rx, s) THEN Refuse(s, n, "ENOSR") /\ UNCHANGED rx
           ELSE IF diff > Half
                THEN Refuse(s, n, "ETIMEDOUT") /\ rx' = [rx EXCEPT ![s] = strm]
           ELSE IF ~Authentic(p, at, ix)
                THEN Refuse(s, n, "EAUTH") /\ rx' = [rx EXCEPT ![s] = at]
           ELSE IF ~Fresh(at.replay_rtp, ix)
                THEN Refuse(s, n, "EALREADY") /\ rx' = [rx EXCEPT ![s] = at]
           ELSE /\ Accept(s, n, ix)
                /\ rx' = [rx EXCEPT ![s] = Advance([at EXCEPT !.replay_rtp = list], p.seq)]

\* srtcp_encrypt: the index travels in the packet
srtcp_encrypt(s) ==
    /\ tx[s].rtcp_index < MaxRtcp
    /\ tx' = [tx EXCEPT ![s].rtcp_index = (@ + 1) % RtcpMod]
    /\ UNCHANGED <<start, sent, rx, hi, got, cgot, last>>

\* srtcp_decrypt: the list of its own is kept only beside an HMAC
srtcp_decrypt(s, i) ==
    LET strm == stream_get(rx, s)
        list == srtp_replay_check(strm.replay_rtcp, i)
        Said(res) == last' = [ssrc |-> s, n |-> i, res |-> res]
    IN  /\ i \in 1 .. tx[s].rtcp_index
        /\ UNCHANGED <<start, tx, sent, hi, got>>
        /\ IF ~Room(rx, s) THEN Said("ENOSR") /\ UNCHANGED <<rx, cgot>>
           ELSE IF Mode = "ctr" /\ ~Fresh(strm.replay_rtcp, i)
                THEN /\ Said("rtcp EALREADY")
                     /\ rx' = [rx EXCEPT ![s] = strm]
                     /\ UNCHANGED cgot
           ELSE /\ Said("rtcp ok")
                /\ cgot' = [cgot EXCEPT ![s] = @ \cup {i}]
                /\ rx' = [rx EXCEPT ![s] = IF Mode = "ctr"
                             THEN [strm EXCEPT !.replay_rtcp = list] ELSE strm]

SrtpNext == \E s \in Ssrcs :
                \/ srtp_encrypt(s)
                \/ \E n \in 0 .. (MaxPkt - 1) : srtp_decrypt(s, n)
                \/ srtcp_encrypt(s)
                \/ \E i \in 1 .. MaxRtcp : srtcp_decrypt(s, i)

SrtpSpec == SrtpInit /\ [][SrtpNext]_srtpVars

-----------------------------------------------------------------------------
Streams == [roc : 0 .. (IntMod - 1), s_l : 0 .. (SeqMod - 1), s_l_set : BOOLEAN,
            rtcp_index : 0 .. (RtcpMod - 1),
            replay_rtp : [lix : 0 .. (IxMod - 1), bitmap : SUBSET Bits],
            replay_rtcp : [lix : 0 .. (RtcpMod - 1), bitmap : SUBSET Bits]]

SrtpTypeOK == /\ start \in [Ssrcs -> 0 .. (Half - 1)]
              /\ tx \in [Ssrcs -> Streams]
              /\ rx \in [Ssrcs -> Streams \cup {None}]
              /\ hi \in [Ssrcs -> 0 .. MaxPkt]

(***************************************************************************)
(* The receiver stays in step with the sender: once a packet was accepted,  *)
(* the roll-over counter and the highest number that srtp_decrypt keeps are *)
(* together the true index of the newest accepted packet, through losses,   *)
(* reordering and roll-overs.                                               *)
(***************************************************************************)
InStep == \A s \in Ssrcs :
    got[s] # {} => rx[s].roc * SeqMod + rx[s].s_l = start[s] + hi[s]

(***************************************************************************)
(* Both ends use one index per packet: what srtp_get_index computes from 16 *)
(* bits is what srtp_encrypt used, so that the payload comes out right.     *)
(***************************************************************************)
SameIndex == \A s \in Ssrcs : \A g \in got[s] : g.ix = sent[s][g.n + 1].ix

\* a packet that was refused, l, was refused for a cause, and not for its tag
Explained(l) ==
    l # None =>
      /\ l.res # "EAUTH"
      /\ l.res \in {"ETIMEDOUT", "EALREADY", "ENOSR"} =>
           \/ /\ l.res = "ENOSR"
              /\ Cardinality({t \in Ssrcs : rx[t] # None}) = SRTP_MAX_STREAMS
           \/ \E g \in got[l.ssrc] : g.n = l.n
           \/ l.n <= hi[l.ssrc] - W
           \/ (start[l.ssrc] + l.n) \div SeqMod < (start[l.ssrc] + hi[l.ssrc]) \div SeqMod

(***************************************************************************)
(* A packet srtp_decrypt refuses is a repeated one, one W or more behind,   *)
(* one sent before the latest roll-over that was seen, or one of a stream   *)
(* beyond SRTP_MAX_STREAMS: nothing else in reach is lost to the receiver,  *)
(* and no packet for a counter or an index that differs from the sender's.  *)
(***************************************************************************)
RefusedExplained == Explained(last')

(***************************************************************************)
(* srtp_decrypt hands no packet up twice.                                   *)
(***************************************************************************)
OnceOnly ==
    last' # last /\ last' # None /\ last'.res = "ok" =>
      \A g \in got[last'.ssrc] : g.n # last'.n

(***************************************************************************)
(* Beside an HMAC srtcp_decrypt hands no report up twice, and the list it   *)
(* keeps for that does not disturb the one of the RTP packets.              *)
(***************************************************************************)
RtcpOnceOnly ==
    last' # last /\ last' # None /\ last'.res = "rtcp ok" =>
      last'.n \notin cgot[last'.ssrc]

-----------------------------------------------------------------------------
Records == [roc : Nat, s_l : Nat, s_l_set : BOOLEAN, rtcp_index : Nat,
            replay_rtp : Lists, replay_rtcp : Lists]
Verdicts == [ssrc : Ssrcs, n : Nat,
             res : {"ok", "ETIMEDOUT", "EAUTH", "EALREADY", "ENOSR",
                    "rtcp ok", "rtcp EALREADY"}]

\* what the code fixes: 2^16 is even and the window of 64 is smaller than half
\* of it; a stream ends before the index leaves an int (2^31 packets)
SrtpAssumption ==
    /\ SeqMod \in Nat \ {0} /\ SeqMod = 2 * Half /\ W <= Half
    /\ RtcpMod \in Nat \ {0} /\ SRTP_MAX_STREAMS \in Nat /\ IsFiniteSet(Ssrcs)
    /\ MaxPkt \in Nat /\ MaxRtcp \in Nat /\ MaxPkt + Half <= IntMod \div 2
    /\ None \notin Records /\ None \notin Verdicts

\* the packet with index i
Packet(i) == [seq |-> i % SeqMod, roc |-> i \div SeqMod, ix |-> i]

\* a stream whose newest packet has index i
At(strm, i) == strm.s_l_set /\ strm.roc = i \div SeqMod /\ strm.s_l = i % SeqMod

SenderOk(s) ==
    /\ Len(sent[s]) <= MaxPkt
    /\ \A n \in 1 .. Len(sent[s]) : sent[s][n] = Packet(start[s] + n - 1)
    /\ IF sent[s] = <<>> THEN ~tx[s].s_l_set /\ tx[s].roc = 0
       ELSE At(tx[s], start[s] + Len(sent[s]) - 1)

ReceiverOk(s) ==
    IF rx[s] = None \/ ~rx[s].s_l_set
    THEN /\ got[s] = {} /\ hi[s] = 0
         /\ rx[s] # None => rx[s].roc = 0 /\ rx[s].replay_rtp = srtp_replay_init
    ELSE /\ got[s] # {} /\ hi[s] < Len(sent[s])
         /\ At(rx[s], start[s] + hi[s]) /\ rx[s].replay_rtp.lix = start[s] + hi[s]
         /\ \A g \in got[s] : g.ix = start[s] + g.n
         /\ Remembers(rx[s].replay_rtp, {g.ix : g \in got[s]})

ReportsOk(s) ==
    IF rx[s] = None THEN cgot[s] = {}
    ELSE Mode = "ctr" => Remembers(rx[s].replay_rtcp, cgot[s])

\* what the actions read
Kinds ==
    /\ start \in [Ssrcs -> 0 .. (Half - 1)]
    /\ tx \in [Ssrcs -> Records]
    /\ sent \in [Ssrcs -> Seq([seq : Nat, roc : Nat, ix : Nat])]
    /\ rx \in [Ssrcs -> Records \cup {None}]
    /\ hi \in [Ssrcs -> Nat]
    /\ got \in [Ssrcs -> SUBSET [n : Nat, ix : Nat]]
    /\ cgot \in [Ssrcs -> SUBSET Nat]
    /\ last \in Verdicts \cup {None}

(***************************************************************************)
(* The inductive invariant of SRTP: the numbers of packet and stream are   *)
(* those of the true index at both ends, and the replay lists remember     *)
(* what was accepted (srtp_encrypt, srtp_decrypt, srtcp_decrypt).          *)
(***************************************************************************)
SrtpInv ==
    /\ Kinds
    /\ Cardinality({t \in Ssrcs : rx[t] # None}) <= SRTP_MAX_STREAMS
    /\ \A s \in Ssrcs : SenderOk(s) /\ ReceiverOk(s) /\ ReportsOk(s)
    /\ Explained(last)

(***************************************************************************)
(* What SRTP keeps at all times: the invariant, a receiver in step with    *)
(* the sender and one index for both ends (srtp_get_index).                *)
(***************************************************************************)
SrtpKept == SrtpInv /\ InStep /\ SameIndex
=============================================================================
