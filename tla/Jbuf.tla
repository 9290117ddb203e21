-------------------------------- MODULE Jbuf --------------------------------
(***************************************************************************)
(* The receiving end of a media stream: rtp_handler and stream_decode of    *)
(* src/baresip/src/stream.c around the jitter buffer of                     *)
(* src/re/src/jbuf/jbuf.c.  The network thread runs rtp_handler; a fixed    *)
(* buffer is emptied by the same thread, an adaptive one by the decoding    *)
(* thread.  What one holder of the buffer's lock does is one step.          *)
(*                                                                          *)
(* Sequence numbers are taken modulo Mod16 (2^16).  `top' is the newest    *)
(* number of the sender; what arrives is at most Jump ahead of it or Reach  *)
(* behind, so a run goes round the number space for ever.  The measured     *)
(* jitter is abstracted to the three verdicts it leads to.                  *)
(***************************************************************************)
EXTENDS Integers, Sequences, SequencesExt

CONSTANTS
    Mod16,         \* 2^16
    Ssrcs,          \* sources a stream may come from
    CfgMin, CfgMax, CfgWish,    \* jitter_buffer_delay and _wish
    Adaptive,       \* jitter_buffer_type: adaptive or fixed
    Jump, Reach,    \* bounds: how far losses and reordering go
    MaxLag,         \* bound: packets between two calls of the decoding thread
    MaxRenew,       \* bound: changes of the source
    LostMax, Back,  \* 3000 and 100: the steps lostcalc believes in
    None

VARIABLES
    jb,         \* struct jbuf; pool: the number of free frames
    strm,       \* struct stream: ssrc_rx, pseq, pseq_set
    net,        \* the network thread: where it is, with which packet
    dec,        \* the decoding thread: where it is, with which frame
    top,        \* the sender: source and newest number
    last,       \* history: the last number played since the buffer was flushed
    told,       \* the losses the decoder was told of with the last frame
    lag, renew  \* counters of the bounds MaxLag and MaxRenew

vars == <<jb, strm, net, dec, top, last, told, lag, renew>>

Bigger(a, b) == IF a > b THEN a ELSE b
Smaller(a, b) == IF a < b THEN a ELSE b

-----------------------------------------------------------------------------
(***************************************************************************)
(* jbuf.c                                                                   *)
(***************************************************************************)
seq_less(x, y) == (x - y) % Mod16 >= Mod16 \div 2

\* jbuf_alloc, then jbuf_set_type, which may raise max after the frames
\* were allocated, then jbuf_set_wish
jbuf_alloc ==
    LET max  == IF Adaptive
                THEN Bigger(Bigger(CfgMax, CfgMin + 3), (CfgMin * 200) \div 125)
                ELSE CfgMax
    IN  [frames |-> <<>>, pool |-> CfgMax, n |-> 0, min |-> CfgMin, max |-> max,
         wish |-> Bigger(CfgMin, Smaller(max - 1, CfgWish)),
         seq_get |-> 0, ssrc |-> None, started |-> FALSE, running |-> FALSE,
         st |-> "GOOD"]

\* frame_deref: the frame goes back into the pool
frame_deref(j, i) == [j EXCEPT !.frames = RemoveAt(@, i), !.pool = @ + 1, !.n = @ - 1]

\* frame_alloc: from the pool, or the oldest frame is stolen
frame_alloc(j) ==
    IF j.pool > 0 THEN [j EXCEPT !.pool = @ - 1, !.n = @ + 1]
    ELSE [j EXCEPT !.frames = Tail(@)]

jbuf_flush(j) ==
    [j EXCEPT !.frames = <<>>, !.pool = @ + Len(j.frames), !.n = 0,
              !.running = FALSE, !.seq_get = 0, !.st = "GOOD", !.started = FALSE]

\* jbuf_jitter_calc: what it may conclude
Verdicts(j) ==
    IF ~Adaptive \/ ~j.started THEN {j.st}
    ELSE {"GOOD"} \cup (IF j.n < j.max THEN {"LOW"} ELSE {})
                  \cup (IF j.n > j.min THEN {"HIGH"} ELSE {})

TooLate_Equal(j, seq) == j.running /\ j.seq_get # 0 /\ seq_less(seq, j.seq_get)

TooLate(j, seq) == j.running /\ j.seq_get # 0 /\ seq_less(seq, (j.seq_get + 1) % Mod16)

Place_Head(fr, seq) == 0

\* the place in the list, found from the tail: behind the last smaller number
Place(fr, seq) ==
    LET less == {i \in 1 .. Len(fr) : seq_less(fr[i].seq, seq)}
    IN  IF less = {} THEN 0 ELSE CHOOSE i \in less : \A k \in less : k <= i

\* the search from the tail meets an equal number before a smaller one
Duplicate(fr, seq) ==
    /\ fr # <<>> /\ ~seq_less(fr[Len(fr)].seq, seq)
    /\ \E i \in 1 .. Len(fr) : fr[i].seq = seq /\ i > Place(fr, seq)

\* the locked part of jbuf_put
jbuf_put(j0, p) ==
    LET j == [j0 EXCEPT !.ssrc = p.ssrc]
        a == frame_alloc(j)
        i == Place(a.frames, p.seq)
    IN  IF TooLate(j, p.seq) THEN {j}
        ELSE IF Duplicate(a.frames, p.seq)
             THEN {[a EXCEPT !.pool = @ + 1, !.n = @ - 1]}
        ELSE LET b == [a EXCEPT !.frames = InsertAt(@, i + 1, p), !.running = TRUE]
             IN  {[b EXCEPT !.st = v] : v \in Verdicts(b)}

\* jbuf_get: silence stays on as it was allocated
Ready(j) ==
    IF ~Adaptive THEN j.n > j.min /\ j.frames # <<>>
    ELSE /\ IF j.started THEN j.frames # <<>> ELSE j.n >= j.wish
         /\ ~(j.n < j.max - 1 /\ j.started /\ j.st = "LOW")

Started(j) == Adaptive /\ (j.started \/ j.n >= j.wish)

jbuf_get(j) ==
    IF ~Ready(j)
    THEN [j EXCEPT !.started = Started(j),
                   !.st = IF Adaptive /\ j.started /\ j.frames = <<>> THEN "EMPTY" ELSE @]
    ELSE LET a == frame_deref([j EXCEPT !.started = Started(j),
                                        !.seq_get = j.frames[1].seq], 1)
         IN  IF Adaptive /\ ((a.n > a.min /\ a.st = "HIGH") \/ a.n = a.max)
             THEN [a EXCEPT !.st = "GOOD"] ELSE a

-----------------------------------------------------------------------------
(***************************************************************************)
(* stream.c                                                                 *)
(***************************************************************************)
lostcalc(s, seq) ==
    LET delta == (seq - s.pseq) % Mod16
    IN  CASE s.pseq = None          -> [lostc |-> 0, pseq |-> seq]
          [] delta = 0              -> [lostc |-> 0, pseq |-> s.pseq]
          [] delta \in 1 .. (LostMax - 1) -> [lostc |-> delta - 1, pseq |-> seq]
          [] delta \in LostMax .. (Mod16 - Back - 1) -> [lostc |-> 0, pseq |-> seq]
          [] OTHER                  -> [lostc |-> 0, pseq |-> s.pseq]

Idle == [at |-> "idle", pkt |-> None]

Init == /\ jb = jbuf_alloc
        /\ strm = [ssrc_rx |-> None, pseq |-> None, pseq_set |-> FALSE]
        /\ net = Idle /\ dec = Idle
        /\ \E s \in Ssrcs, q \in 0 .. (Mod16 - 1) : top = [ssrc |-> s, seq |-> q]
        /\ last = None /\ told = 0
        /\ lag = 0 /\ renew = 0

\* a packet arrives: rtp_handler up to the buffer
rtp_handler(p, newest) ==
    /\ net.at = "idle"
    /\ Adaptive => lag < MaxLag
    /\ lag' = IF Adaptive THEN lag + 1 ELSE 0
    /\ top' = newest
    /\ strm' = IF strm.pseq_set /\ p.ssrc = strm.ssrc_rx THEN strm
               ELSE [ssrc_rx |-> p.ssrc, pseq |-> (p.seq - 1) % Mod16, pseq_set |-> TRUE]
    /\ net' = [at  |-> IF strm.pseq_set /\ p.ssrc # strm.ssrc_rx THEN "flush"
                       ELSE IF jb.ssrc \notin {None, p.ssrc} THEN "ssrc" ELSE "put",
               pkt |-> p]
    /\ told' = 0
    /\ UNCHANGED <<jb, dec, last, renew>>

ArriveNew ==
    \E d \in 1 .. Jump :
      LET q == [ssrc |-> top.ssrc, seq |-> (top.seq + d) % Mod16]
      IN  rtp_handler(q, q)

ArriveOld ==
    \E d \in 0 .. Reach :
      strm.pseq_set /\ rtp_handler([ssrc |-> top.ssrc, seq |-> (top.seq - d) % Mod16], top)

\* the peer starts over with another source
NewSource ==
    /\ net.at = "idle" /\ renew < MaxRenew /\ strm.ssrc_rx = top.ssrc
    /\ renew' = renew + 1
    /\ \E s \in Ssrcs \ {top.ssrc}, q \in {0, Mod16 \div 2} : top' = [ssrc |-> s, seq |-> q]
    /\ UNCHANGED <<jb, strm, net, dec, last, told, lag>>

\* rtp_handler saw another source: jbuf_flush
Flush ==
    /\ net.at = "flush"
    /\ jb' = jbuf_flush(jb)
    /\ last' = None
    /\ net' = [net EXCEPT !.at = "ssrc"]
    /\ UNCHANGED <<strm, dec, top, told, lag, renew>>

\* jbuf_put looks at the source before it takes the lock: jbuf_flush again
CheckSsrc ==
    /\ net.at = "ssrc"
    /\ jb' = jbuf_flush(jb)
    /\ last' = None
    /\ net' = [net EXCEPT !.at = "put"]
    /\ UNCHANGED <<strm, dec, top, told, lag, renew>>

Put ==
    /\ net.at = "put"
    /\ jb' \in jbuf_put(jb, net.pkt)
    /\ net' = IF Adaptive THEN Idle ELSE [at |-> "decode", pkt |-> None]
    /\ UNCHANGED <<strm, dec, top, last, told, lag, renew>>

\* the frame jbuf_get hands out
Play(j) == /\ jb' = jbuf_get(j)
           /\ last' = IF Ready(j) THEN j.frames[1].seq ELSE last

\* the fixed buffer: rtp_handler calls stream_decode itself
DecodeHere ==
    /\ net.at = "decode"
    /\ Play(jb)
    /\ IF Ready(jb)
       THEN LET l == lostcalc(strm, jb.frames[1].seq)
            IN  told' = l.lostc /\ strm' = [strm EXCEPT !.pseq = l.pseq]
       ELSE UNCHANGED <<told, strm>>
    /\ net' = Idle
    /\ UNCHANGED <<dec, top, lag, renew>>

\* the decoding thread calls stream_decode: jbuf_get under the lock ...
Decode ==
    /\ Adaptive /\ dec.at = "idle"
    /\ Play(jb)
    /\ dec' = IF Ready(jb) THEN [at |-> "lost", pkt |-> jb.frames[1]]
              ELSE dec
    /\ lag' = 0
    /\ UNCHANGED <<strm, net, top, told, renew>>

\* ... then lostcalc without it
Lost ==
    /\ dec.at = "lost"
    /\ strm' = [strm EXCEPT !.pseq = lostcalc(strm, dec.pkt.seq).pseq]
    /\ dec' = Idle
    /\ UNCHANGED <<jb, net, top, last, told, lag, renew>>

Next == ArriveNew \/ ArriveOld \/ NewSource \/ Flush \/ CheckSsrc \/ Put \/ DecodeHere \/ Decode \/ Lost

\* new packets keep coming, and both threads keep running
Fairness == /\ SF_vars(ArriveNew) /\ WF_vars(Flush) /\ WF_vars(CheckSsrc) /\ WF_vars(Put)
            /\ WF_vars(DecodeHere) /\ WF_vars(Decode) /\ WF_vars(Lost)

Spec == Init /\ [][Next]_vars
FairSpec == Spec /\ Fairness

-----------------------------------------------------------------------------
Packets == [ssrc : Ssrcs, seq : 0 .. (Mod16 - 1)]

TypeOK ==
    /\ jb.frames \in Seq(Packets) /\ jb.pool \in 0 .. CfgMax
    /\ jb.seq_get \in 0 .. (Mod16 - 1) /\ jb.st \in {"GOOD", "LOW", "HIGH", "EMPTY"}
    /\ strm.pseq \in 0 .. (Mod16 - 1) \cup {None}
    /\ net.at \in {"idle", "flush", "ssrc", "put", "decode"}
    /\ dec.at \in {"idle", "lost"}
    /\ last \in 0 .. (Mod16 - 1) \cup {None}

(***************************************************************************)
(* No frame is lost or counted twice: the frames in the buffer are n, and   *)
(* with those in the pool they are the ones jbuf_alloc allocated, also when *)
(* a frame is stolen for a packet that turns out to be a duplicate.         *)
(***************************************************************************)
FramesKept == jb.n = Len(jb.frames) /\ jb.pool + jb.n = CfgMax

(***************************************************************************)
(* The buffer is sorted, holds no number twice and only one source: "for    *)
(* incoming RTP packets, which are sorted by sequence number".              *)
(***************************************************************************)
Sorted ==
    /\ \A i \in 1 .. (Len(jb.frames) - 1) : seq_less(jb.frames[i].seq, jb.frames[i + 1].seq)
    /\ \A i \in 1 .. Len(jb.frames) : jb.frames[i].ssrc = jb.ssrc

\* jbuf_get hands out a frame
Plays == (dec.at = "idle" /\ dec'.at # "idle") \/ (net.at = "decode" /\ jb'.n # jb.n)

(***************************************************************************)
(* Frames are played in the order of their numbers, none twice: each one    *)
(* jbuf_get hands out is newer than the one before it, since the buffer was *)
(* flushed.                                                                 *)
(***************************************************************************)
PlayedInOrder == [][Plays /\ last # None => seq_less(last, last')]_vars

(***************************************************************************)
(* The order is broken only right after number 0 was played, the value of   *)
(* seq_get that jbuf_put takes for "nothing played yet".                    *)
(***************************************************************************)
OrderButAtZero == Plays /\ last \notin {None, 0} => seq_less(last, last')

(***************************************************************************)
(* lostcalc tells the decoder of a fixed buffer of no loss that did not     *)
(* happen: never more than the gap to the frame played before, and of none  *)
(* with the first frame, however the packets were reordered.                *)
(***************************************************************************)
NoFalseLoss ==
    net.at = "decode" /\ Plays =>
      told' <= IF last = None THEN 0 ELSE Bigger(((last' - last) % Mod16) - 1, 0)

(***************************************************************************)
(* While packets come and stream_decode is called, frames are played again  *)
(* and again: neither the start phase, nor the minimum fill, nor the wait   *)
(* of an adaptive buffer for more frames lasts for ever.                    *)
(***************************************************************************)
KeepsPlaying == []<><<Plays>>_vars
=============================================================================
