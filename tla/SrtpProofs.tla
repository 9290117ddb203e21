----------------------------- MODULE SrtpProofs ------------------------------
(***************************************************************************)
(* Proofs about SRTP.  The replay list, for every window size W and every  *)
(* order in which packet indices arrive.  The two ends of SRTP, for every  *)
(* size of the number space and any number of streams.                     *)
(***************************************************************************)
EXTENDS Replay, Srtp, TLAPS

(***************************************************************************)
(* The condition srtp_replay_check tests is the intended one: an index is  *)
(* fresh exactly when it was not accepted before and lies in the window.   *)
(***************************************************************************)
LEMMA FreshExact ==
    ASSUME NEW r \in Lists, NEW S \in SUBSET Nat, Remembers(r, S), NEW ix \in Nat
    PROVE  Fresh(r, ix) <=> (ix \notin S /\ ix > r.lix - W)
<1>1. r.lix \in Nat /\ W \in Nat \ {0}
  BY WAssumption DEF Lists
<1>2. CASE ix > r.lix
  BY <1>1, <1>2 DEF Fresh, Remembers
<1>3. CASE ix <= r.lix /\ r.lix - ix >= W
  BY <1>1, <1>3 DEF Fresh
<1>4. CASE ix <= r.lix /\ r.lix - ix < W
  <2>1. r.lix - ix \in Bits /\ r.lix - (r.lix - ix) = ix
    BY <1>1, <1>4 DEF Bits
  <2>2. r.lix - ix \in r.bitmap <=> ix \in S
    BY <2>1 DEF Remembers
  <2> QED
    BY <1>1, <1>4, <2>2 DEF Fresh
<1> QED
  BY <1>1, <1>2, <1>3, <1>4

(***************************************************************************)
(* A check keeps the list exact: a newer index in the window (a shift),    *)
(* one beyond it (a new bitmap), and an older one marked in place.         *)
(***************************************************************************)
LEMMA CheckKeeps ==
    ASSUME NEW r \in Lists, NEW S \in SUBSET Nat, Remembers(r, S), NEW ix \in Nat, Fresh(r, ix)
    PROVE  /\ srtp_replay_check(r, ix) \in Lists
           /\ srtp_replay_check(r, ix).lix = (IF ix > r.lix THEN ix ELSE r.lix)
           /\ Remembers(srtp_replay_check(r, ix), S \cup {ix})
<1> DEFINE c == srtp_replay_check(r, ix)
<1>1. r.lix \in Nat /\ r.bitmap \subseteq Bits /\ W \in Nat \ {0}
  BY WAssumption DEF Lists
<1>2. 0 \in Bits /\ \A b \in Bits : b \in Nat /\ b < W
  BY <1>1 DEF Bits
<1>3. CASE ix > r.lix
  <2>1. c = Newer(r, ix)
    BY <1>3 DEF srtp_replay_check
  <2>2. c.lix = ix /\ c.bitmap = (IF ix - r.lix < W THEN Shift(r.bitmap, ix - r.lix) \cup {0} ELSE {0})
    BY <2>1 DEF Newer
  <2>3. c.bitmap \subseteq Bits
    BY <1>2, <2>2 DEF Shift
  <2>4. c = [lix |-> c.lix, bitmap |-> c.bitmap]
    BY <2>1 DEF Newer
  <2> HIDE DEF c
  <2>5. c \in Lists
    BY <2>2, <2>3, <2>4 DEF Lists
  <2>6. \A i \in S \cup {ix} : i <= c.lix
    BY <1>1, <1>3, <2>2 DEF Remembers
  <2>7. ASSUME NEW b \in Bits PROVE b \in c.bitmap <=> ix - b \in S \cup {ix}
    <3>1. b \in Nat /\ b < W
      BY <1>2
    <3>2. CASE b = 0
      BY <2>2, <3>2
    <3>3. CASE b # 0 /\ ix - r.lix < W
      <4>1. b \in c.bitmap <=> b - (ix - r.lix) \in r.bitmap
        BY <2>2, <3>3 DEF Shift
      <4>2. ix - b # ix
        BY <3>1, <3>3
      <4>3. CASE b - (ix - r.lix) \in Bits
        <5>1. r.lix - (b - (ix - r.lix)) = ix - b
          BY <1>1, <3>1
        <5> QED
          BY <4>1, <4>2, <4>3, <5>1 DEF Remembers
      <4>4. CASE b - (ix - r.lix) \notin Bits
        <5>1. ix - b > r.lix
          BY <1>1, <1>3, <3>1, <4>4 DEF Bits
        <5>2. ix - b \notin S
          BY <1>1, <3>1, <5>1 DEF Remembers
        <5> QED
          BY <1>1, <4>1, <4>2, <4>4, <5>2
      <4> QED
        BY <4>3, <4>4
    <3>4. CASE b # 0 /\ ~(ix - r.lix < W)
      <4>1. b \notin c.bitmap /\ ix - b # ix /\ ix - b > r.lix
        BY <1>1, <2>2, <3>1, <3>4
      <4>2. ix - b \notin S
        BY <1>1, <3>1, <4>1 DEF Remembers
      <4> QED
        BY <4>1, <4>2
    <3> QED
      BY <3>2, <3>3, <3>4
  <2>8. Remembers(c, S \cup {ix})
    BY <2>2, <2>6, <2>7 DEF Remembers
  <2> QED
    BY <1>3, <2>2, <2>5, <2>8 DEF c
<1>4. CASE ~(ix > r.lix)
  <2>1. c = [r EXCEPT !.bitmap = @ \cup {r.lix - ix}]
    BY <1>4 DEF srtp_replay_check
  <2>2. r.lix - ix \in Bits
    BY <1>1, <1>4 DEF Fresh, Bits
  <2>3. c \in Lists /\ c.lix = r.lix /\ c.bitmap = r.bitmap \cup {r.lix - ix}
    BY <2>1, <2>2 DEF Lists
  <2> HIDE DEF c
  <2>4. \A i \in S \cup {ix} : i <= c.lix
    BY <1>1, <1>4, <2>3 DEF Remembers
  <2>5. ASSUME NEW b \in Bits PROVE b \in c.bitmap <=> c.lix - b \in S \cup {ix}
    <3>1. b \in Nat
      BY <1>2
    <3>2. (b \in r.bitmap <=> r.lix - b \in S) /\ (b = r.lix - ix <=> r.lix - b = ix)
      BY <1>1, <3>1 DEF Remembers
    <3> QED
      BY <2>3, <3>2
  <2>6. Remembers(c, S \cup {ix})
    BY <2>4, <2>5 DEF Remembers
  <2> QED
    BY <1>4, <2>3, <2>6 DEF c
<1> QED
  BY <1>3, <1>4

(***************************************************************************)
(* Indices that left the window may be forgotten.                          *)
(***************************************************************************)
LEMMA Pruned ==
    ASSUME NEW r \in Lists, NEW S \in SUBSET Nat, Remembers(r, S), NEW T \in SUBSET S,
           \A i \in S : i > r.lix - W => i \in T
    PROVE  Remembers(r, T)
<1>1. r.lix \in Nat /\ W \in Nat \ {0}
  BY WAssumption DEF Lists
<1>2. \A i \in T : i <= r.lix
  BY DEF Remembers
<1>3. ASSUME NEW b \in Bits PROVE b \in r.bitmap <=> r.lix - b \in T
  <2>1. b \in Nat /\ r.lix - b > r.lix - W
    BY <1>1 DEF Bits
  <2>2. b \in r.bitmap <=> r.lix - b \in S
    BY DEF Remembers
  <2> QED
    BY Zenon, <2>1, <2>2
<1> QED
  BY <1>2, <1>3 DEF Remembers

(***************************************************************************)
(* A zeroed replay list remembers that nothing was accepted.               *)
(***************************************************************************)
LEMMA NewListOk ==
    srtp_replay_init \in Lists /\ srtp_replay_init.lix = 0 /\ Remembers(srtp_replay_init, {})
<1>1. srtp_replay_init \in Lists
  BY DEF srtp_replay_init, Lists
<1>2. Remembers(srtp_replay_init, {})
  BY DEF srtp_replay_init, Remembers
<1>3. srtp_replay_init.lix = 0
  BY DEF srtp_replay_init
<1> QED
  BY <1>1, <1>2, <1>3

(***************************************************************************)
(* The replay list between two checks.                                     *)
(***************************************************************************)
IInv == List \in Lists /\ seen \in SUBSET Nat /\ WindowExact

(* srtp_replay_check keeps the list exact.                                 *)
LEMMA CheckStep ==
    ASSUME IInv, NEW ix \in Nat, Check(ix)
    PROVE  IInv'
<1> DEFINE r == srtp_replay_check(List, ix)
<1>1. List \in Lists /\ seen \in SUBSET Nat /\ Remembers(List, seen)
  BY DEF IInv, WindowExact
<1>2. CASE Fresh(List, ix)
  <2>1. r \in Lists /\ Remembers(r, seen \cup {ix})
    BY <1>1, <1>2, CheckKeeps
  <2>2. seen' = seen \cup {ix} /\ List' = [lix |-> r.lix, bitmap |-> r.bitmap]
    BY <1>2 DEF Check, List
  <2> HIDE DEF r
  <2>3. List' = r
    BY <2>1, <2>2 DEF Lists
  <2>4. Remembers(List, seen)'
    BY <2>1, <2>2, <2>3 DEF Remembers
  <2> QED
    BY <1>1, <2>1, <2>2, <2>3, <2>4 DEF IInv, WindowExact
<1>3. CASE ~Fresh(List, ix)
  <2>1. lix' = lix /\ bitmap' = bitmap /\ seen' = seen
    BY <1>3 DEF Check, srtp_replay_check, List
  <2> QED
    BY <1>1, <2>1 DEF IInv, WindowExact, List, Remembers
<1> QED
  BY <1>2, <1>3

(***************************************************************************)
(* The replay list starts exact, and no check makes it inexact.            *)
(***************************************************************************)
LEMMA Exact == ListSpec => []IInv
<1>1. ListInit => IInv
  BY NewListOk DEF ListInit, IInv, WindowExact, List, srtp_replay_init
<1>2. IInv /\ [ListNext]_listVars => IInv'
  <2> SUFFICES ASSUME IInv, [ListNext]_listVars PROVE IInv'
    OBVIOUS
  <2>1. CASE ListNext
    <3>1. PICK ix \in Indices : Check(ix)
      BY <2>1 DEF ListNext
    <3> QED
      BY <3>1, CheckStep, IndicesAssumption
  <2>2. CASE UNCHANGED listVars
    BY <2>2 DEF listVars, IInv, WindowExact, List, Remembers
  <2> QED
    BY <2>1, <2>2
<1> QED
  BY <1>1, <1>2, PTL DEF ListSpec

(***************************************************************************)
(* For every window size: the bitmap of the replay list holds exactly the  *)
(* accepted indices of the window behind the highest one.                  *)
(***************************************************************************)
THEOREM BitmapExact == ListSpec => []WindowExact
<1>1. IInv => WindowExact
  BY DEF IInv
<1> QED
  BY <1>1, Exact, PTL

(***************************************************************************)
(* For every window size and every order of arrival: srtp_replay_check     *)
(* accepts an index exactly when it is new and inside the window, so that  *)
(* no packet is ever accepted twice and none is refused without need.      *)
(***************************************************************************)
THEOREM NoReplay == ListSpec => AcceptExactly
<1>1. IInv /\ [ListNext]_listVars =>
        [verdict'.ok <=> (verdict'.ix \notin seen /\ verdict'.ix > lix - W)]_listVars
  <2> SUFFICES ASSUME IInv, ListNext
               PROVE  verdict'.ok <=> (verdict'.ix \notin seen /\ verdict'.ix > lix - W)
    OBVIOUS
  <2>1. PICK ix \in Indices : Check(ix)
    BY DEF ListNext
  <2>2. ix \in Nat
    BY IndicesAssumption
  <2>3. verdict'.ix = ix /\ verdict'.ok = Fresh(List, ix)
    BY <2>1 DEF Check
  <2> QED
    BY <2>2, <2>3, FreshExact DEF IInv, WindowExact, List
<1> QED
  BY <1>1, Exact, PTL DEF ListSpec, AcceptExactly

-----------------------------------------------------------------------------
(***************************************************************************)
(* Arithmetic: a number below the modulus, the division of an index, and   *)
(* how far quotients lie apart.                                            *)
(***************************************************************************)
LEMMA ModSmall ==
    ASSUME NEW m \in Nat \ {0}, NEW a \in 0 .. (m - 1)
    PROVE  a % m = a /\ a \div m = 0
  BY Z3

(* An index from its quotient and remainder.                               *)
LEMMA Split ==
    ASSUME NEW m \in Nat \ {0}, NEW i \in Nat
    PROVE  /\ i \div m \in Nat /\ i % m \in 0 .. (m - 1)
           /\ i = m * (i \div m) + (i % m)
  BY Z3

(* Multiplication commutes.                                                *)
LEMMA Commutes ==
    ASSUME NEW a \in Nat, NEW b \in Nat
    PROVE  a * b = b * a
  BY Z3

(* Multiples of m are at least m apart.                                    *)
LEMMA Apart ==
    ASSUME NEW m \in Nat \ {0}, NEW p \in Nat, NEW q \in Nat, p < q
    PROVE  m * q >= m * p + m
  BY Z3

(***************************************************************************)
(* The sizes of the code's integers in terms of half the number space.     *)
(***************************************************************************)
LEMMA Sizes ==
    ASSUME SrtpAssumption
    PROVE  /\ Half \in Nat \ {0} /\ SeqMod = 2 * Half /\ SeqMod \in Nat \ {0}
           /\ IntMod \in Nat \ {0} /\ IxMod \in Nat \ {0} /\ IxMod >= IntMod
           /\ IntMod \div 2 \in Nat /\ IntMod = 2 * (IntMod \div 2)
           /\ W \in Nat \ {0} /\ W <= Half
<1>1. SeqMod \in Nat \ {0} /\ SeqMod = 2 * Half /\ W <= Half
  BY DEF SrtpAssumption
<1>2. Half \in Nat \ {0}
  BY <1>1 DEF Half
<1>3. IntMod \in Nat \ {0} /\ IntMod \div 2 \in Nat /\ IntMod = 2 * (IntMod \div 2)
  <2>1. IntMod = 2 * (Half * SeqMod) /\ Half * SeqMod \in Nat \ {0}
    BY <1>1, <1>2, Z3 DEF IntMod
  <2> DEFINE k == Half * SeqMod
  <2>2. IntMod = 2 * k /\ k \in Nat \ {0}
    BY <2>1
  <2> HIDE DEF k
  <2> QED
    BY <2>2, Z3
<1>4. IxMod \in Nat \ {0} /\ IxMod >= IntMod
  BY <1>3, Z3 DEF IxMod
<1> QED
  BY <1>1, <1>2, <1>3, <1>4, WAssumption

(***************************************************************************)
(* Two indices within half the number space differ by at most one roll-    *)
(* over, and their sequence numbers tell which.                            *)
(***************************************************************************)
LEMMA Near ==
    ASSUME SrtpAssumption, NEW a \in Nat, NEW b \in Nat, b - a <= Half, a - b < Half
    PROVE  \/ /\ b \div SeqMod = a \div SeqMod
              /\ (b % SeqMod) - (a % SeqMod) = b - a
           \/ /\ b \div SeqMod = (a \div SeqMod) + 1
              /\ (b % SeqMod) - (a % SeqMod) = (b - a) - SeqMod
           \/ /\ (b \div SeqMod) + 1 = a \div SeqMod
              /\ (b % SeqMod) - (a % SeqMod) = (b - a) + SeqMod
<1> DEFINE q == a \div SeqMod
           p == b \div SeqMod
           r == a % SeqMod
           t == b % SeqMod
           M == SeqMod
<1>1. Half \in Nat \ {0} /\ M = 2 * Half /\ M \in Nat \ {0}
  BY Sizes
<1>2. q \in Nat /\ r \in 0 .. (M - 1) /\ a = M * q + r
  BY Zenon, <1>1, Split
<1>3. p \in Nat /\ t \in 0 .. (M - 1) /\ b = M * p + t
  BY ZenonT(30), <1>1, Split
<1> HIDE DEF q, p, r, t, M
<1>4. ~(p > q + 1)
  <2> SUFFICES ASSUME q + 1 < p PROVE FALSE
    BY <1>2, <1>3
  <2>1. M * p >= M * (q + 1) + M /\ M * (q + 1) = M * q + M
    BY <1>1, <1>2, <1>3, Apart, Z3
  <2> QED
    BY <1>1, <1>2, <1>3, <2>1, Z3
<1>5. ~(q > p + 1)
  <2> SUFFICES ASSUME p + 1 < q PROVE FALSE
    BY <1>2, <1>3
  <2>1. M * q >= M * (p + 1) + M /\ M * (p + 1) = M * p + M
    BY <1>1, <1>2, <1>3, Apart, Z3
  <2> QED
    BY <1>1, <1>2, <1>3, <2>1, Z3
<1>6. p = q \/ p = q + 1 \/ p + 1 = q
  BY <1>2, <1>3, <1>4, <1>5
<1>7. CASE p = q
  <2>1. t - r = b - a
    BY <1>1, <1>2, <1>3, <1>7, Z3
  <2> QED
    BY <1>7, <2>1 DEF q, p, r, t, M
<1>8. CASE p = q + 1
  <2>1. M * p = M * q + M
    BY <1>1, <1>2, <1>8, Z3
  <2>2. t - r = (b - a) - M
    BY <1>1, <1>2, <1>3, <2>1, Z3
  <2> QED
    BY <1>8, <2>2 DEF q, p, r, t, M
<1>9. CASE p + 1 = q
  <2>1. M * q = M * p + M
    BY <1>1, <1>3, <1>9, Z3
  <2>2. t - r = (b - a) + M
    BY <1>1, <1>2, <1>3, <2>1, Z3
  <2> QED
    BY <1>9, <2>2 DEF q, p, r, t, M
<1> QED
  BY <1>6, <1>7, <1>8, <1>9

(***************************************************************************)
(* The conversion to int that srtp_get_index makes changes nothing below   *)
(* 2^31.                                                                   *)
(***************************************************************************)
LEMMA AsIntSmall ==
    ASSUME SrtpAssumption, NEW n \in Nat, n < IntMod \div 2
    PROVE  AsInt(n) = n
<1>1. n % IntMod = n
  BY Sizes, ModSmall
<1> QED
  BY <1>1, Sizes DEF AsInt

(***************************************************************************)
(* srtp_get_index computes the true index when the counter is that of the  *)
(* packet and the highest number is within half the space.                 *)
(***************************************************************************)
LEMMA SameIx ==
    ASSUME SrtpAssumption, NEW i \in Nat, i < IntMod \div 2,
           NEW s_l \in 0 .. (SeqMod - 1),
           (i % SeqMod) - s_l <= Half, s_l - (i % SeqMod) <= Half
    PROVE  srtp_get_index(i \div SeqMod, s_l, i % SeqMod) = i
<1> DEFINE roc == i \div SeqMod
           seq == i % SeqMod
<1>1. /\ roc \in Nat /\ seq \in 0 .. (SeqMod - 1) /\ i = SeqMod * roc + seq
      /\ Half \in Nat \ {0} /\ SeqMod \in Nat \ {0}
  BY ZenonT(30), Sizes, Split
<1>0. seq - s_l <= Half /\ s_l - seq <= Half
  OBVIOUS
<1> HIDE DEF roc, seq
<1>2. roc * SeqMod \in Nat /\ roc * SeqMod <= i /\ roc <= roc * SeqMod /\ seq + roc * SeqMod = i
  BY <1>1, Z3
<1>3. AsInt(roc) = roc
  BY <1>1, <1>2, Sizes, AsIntSmall
<1>4. AsInt(roc * SeqMod) = roc * SeqMod
  BY <1>2, Sizes, AsIntSmall
<1>5. i % IxMod = i
  BY Sizes, ModSmall
<1>6. ~(s_l < Half /\ seq - s_l > Half) /\ ~(s_l >= Half /\ s_l - Half > seq)
  BY <1>0, <1>1
<1>7. srtp_get_index(roc, s_l, seq) = (seq + AsInt(AsInt(roc) * SeqMod)) % IxMod
  BY <1>6 DEF srtp_get_index
<1>8. srtp_get_index(roc, s_l, seq) = i
  BY <1>2, <1>3, <1>4, <1>5, <1>7
<1> QED
  BY <1>8 DEF roc, seq

\* r and t differ in neither list
SameLists(r, t) == /\ r.rtcp_index = t.rtcp_index
                   /\ r.replay_rtp = t.replay_rtp /\ r.replay_rtcp = t.replay_rtcp

(***************************************************************************)
(* What stream_get_seq, the roll-over and the advance do to a stream's     *)
(* fields: the replay lists are untouched.                                 *)
(***************************************************************************)
LEMMA GetSeqDoes ==
    ASSUME NEW r \in Records, NEW seq \in Nat
    PROVE  /\ stream_get_seq(r, seq) \in Records
           /\ stream_get_seq(r, seq).s_l_set
           /\ stream_get_seq(r, seq).s_l = (IF r.s_l_set THEN r.s_l ELSE seq)
           /\ stream_get_seq(r, seq).roc = r.roc
           /\ SameLists(stream_get_seq(r, seq), r)
           /\ r.s_l_set => stream_get_seq(r, seq) = r
  BY Zenon DEF stream_get_seq, Records, SameLists

(* A roll-over raises the counter by one.                                  *)
LEMMA RollOverDoes ==
    ASSUME SrtpAssumption, NEW r \in Records, r.roc + 1 < IntMod
    PROVE  /\ RollOver(r) \in Records
           /\ RollOver(r).s_l_set = r.s_l_set /\ RollOver(r).s_l = 0
           /\ RollOver(r).roc = r.roc + 1 /\ SameLists(RollOver(r), r)
<1>1. r.roc \in Nat
  BY DEF Records
<1>2. (r.roc + 1) % IntMod = r.roc + 1
  BY SMTT(30), <1>1, Sizes, ModSmall
<1> DEFINE k == (r.roc + 1) % IntMod
<1>3. RollOver(r) = [r EXCEPT !.roc = k, !.s_l = 0]
  BY DEF RollOver
<1>4. k \in Nat /\ k = r.roc + 1
  BY <1>1, <1>2
<1> HIDE DEF k
<1> DEFINE m == [r EXCEPT !.roc = k]
<1>5. m \in Records /\ m.roc = k /\ m.s_l_set = r.s_l_set /\ SameLists(m, r)
  BY <1>4 DEF Records, SameLists
<1>6. RollOver(r) = [m EXCEPT !.s_l = 0]
  BY <1>3
<1> HIDE DEF m
<1>7. /\ RollOver(r) \in Records
      /\ RollOver(r).roc = k /\ RollOver(r).s_l = 0 /\ RollOver(r).s_l_set = m.s_l_set
      /\ SameLists(RollOver(r), m)
  BY ONLY <1>5, <1>6 DEF Records, SameLists
<1> QED
  BY <1>4, <1>5, <1>7 DEF SameLists

(* Advance changes the highest number and nothing else.                    *)
LEMMA AdvanceDoes ==
    ASSUME NEW r \in Records, NEW seq \in Nat
    PROVE  /\ Advance(r, seq) \in Records
           /\ Advance(r, seq).s_l_set = r.s_l_set
           /\ Advance(r, seq).s_l = (IF seq > r.s_l THEN seq ELSE r.s_l)
           /\ Advance(r, seq).roc = r.roc /\ SameLists(Advance(r, seq), r)
<1> DEFINE k == IF seq > r.s_l THEN seq ELSE r.s_l
<1>1. Advance(r, seq) = [r EXCEPT !.s_l = k]
  BY DEF Advance
<1>2. k \in Nat
  BY DEF Records
<1>3. /\ Advance(r, seq) \in Records
      /\ Advance(r, seq).s_l_set = r.s_l_set
      /\ Advance(r, seq).s_l = k
      /\ Advance(r, seq).roc = r.roc /\ SameLists(Advance(r, seq), r)
  <2> HIDE DEF k
  <2> QED
    BY <1>1, <1>2 DEF Records, SameLists
<1> QED
  BY <1>3

Newest(a, b) == IF b > a THEN b ELSE a

(***************************************************************************)
(* A stream at index a meets the packet with index b.                      *)
(***************************************************************************)
Rolled(r, seq) == IF seq_diff(r.s_l, seq) <= -Half THEN RollOver(r) ELSE r

(***************************************************************************)
(* A packet b in reach of a stream at a: it is older than the latest       *)
(* roll-over, or the stream rolls over exactly when it must and the index  *)
(* that srtp_get_index then computes is b.                                 *)
(***************************************************************************)
LEMMA Follows ==
    ASSUME SrtpAssumption, NEW r \in Records, NEW a \in Nat, NEW b \in Nat,
           At(r, a), b - a <= Half, a - b < Half, b < IntMod \div 2,
           NEW t, t = Rolled(r, b % SeqMod)
    PROVE  \/ /\ seq_diff(r.s_l, b % SeqMod) > Half
              /\ b \div SeqMod < a \div SeqMod
           \/ /\ ~(seq_diff(r.s_l, b % SeqMod) > Half)
              /\ t \in Records /\ t.s_l_set /\ SameLists(t, r)
              /\ t.roc = b \div SeqMod
              /\ t.roc = Newest(a, b) \div SeqMod
              /\ (IF b % SeqMod > t.s_l THEN b % SeqMod ELSE t.s_l) = Newest(a, b) % SeqMod
              /\ srtp_get_index(t.roc, t.s_l, b % SeqMod) = b
              /\ b <= a => t = r
<1> DEFINE q == a \div SeqMod
           p == b \div SeqMod
           l == a % SeqMod
           seq == b % SeqMod
<1>1. /\ Half \in Nat \ {0} /\ SeqMod = 2 * Half /\ SeqMod \in Nat \ {0}
      /\ IntMod \in Nat \ {0} /\ IntMod = 2 * (IntMod \div 2) /\ IntMod \div 2 \in Nat
  BY Sizes
<1>2. /\ q \in Nat /\ l \in 0 .. (SeqMod - 1)
      /\ p \in Nat /\ seq \in 0 .. (SeqMod - 1) /\ b = SeqMod * p + seq
  BY Zenon, <1>1, Split
<1>3. \/ p = q /\ seq - l = b - a
      \/ p = q + 1 /\ seq - l = (b - a) - SeqMod
      \/ p + 1 = q /\ seq - l = (b - a) + SeqMod
  BY Near
<1>4. r.s_l_set /\ r.roc = q /\ r.s_l = l
  BY DEF At
<1>5. seq_diff(r.s_l, seq) = seq - l
  BY <1>4 DEF seq_diff
<1>6. p < IntMod
  <2>1. p <= SeqMod * p
    BY <1>1, <1>2, Z3
  <2>2. SeqMod * p \in Nat
    BY <1>1, <1>2
  <2> QED
    BY <1>1, <1>2, <2>1, <2>2
<1>7. CASE p = q /\ seq - l = b - a
  <2>1. ~(seq_diff(r.s_l, seq) <= -Half) /\ ~(seq_diff(r.s_l, seq) > Half)
    BY <1>1, <1>2, <1>5, <1>7
  <2>2. t = r
    BY <2>1 DEF Rolled
  <2>3. srtp_get_index(p, l, seq) = b
    <3>1. seq - l <= Half /\ l - seq <= Half
      BY <1>1, <1>2, <1>7
    <3> QED
      BY <1>2, <3>1, SameIx
  <2>4. (IF seq > l THEN seq ELSE l) = Newest(a, b) % SeqMod
    BY <1>2, <1>7 DEF Newest
  <2>5. p = Newest(a, b) \div SeqMod
    BY <1>7 DEF Newest
  <2> QED
    BY <1>4, <1>7, <2>1, <2>2, <2>3, <2>4, <2>5 DEF SameLists
<1>8. CASE p = q + 1 /\ seq - l = (b - a) - SeqMod
  <2>1. seq_diff(r.s_l, seq) <= -Half /\ ~(seq_diff(r.s_l, seq) > Half) /\ seq < Half
    BY <1>1, <1>2, <1>5, <1>8
  <2>2. t = RollOver(r)
    BY <2>1 DEF Rolled
  <2>3. t \in Records /\ t.s_l_set /\ SameLists(t, r) /\ t.roc = p /\ t.s_l = 0
    BY <1>2, <1>4, <1>6, <1>8, <2>2, RollOverDoes
  <2>4. srtp_get_index(p, 0, seq) = b
    <3>1. seq - 0 <= Half /\ 0 - seq <= Half /\ 0 \in 0 .. (SeqMod - 1)
      BY <1>1, <1>2, <2>1
    <3> QED
      BY <1>2, <3>1, SameIx
  <2>5. b > a
    BY <1>1, <1>2, <1>8
  <2>6. Newest(a, b) = b
    BY <2>5 DEF Newest
  <2>7. (IF seq > 0 THEN seq ELSE 0) = seq
    BY <1>2
  <2> QED
    BY <2>1, <2>3, <2>4, <2>5, <2>6, <2>7
<1>9. CASE p + 1 = q /\ seq - l = (b - a) + SeqMod
  <2>1. seq_diff(r.s_l, seq) > Half /\ p < q
    BY <1>1, <1>2, <1>5, <1>9
  <2> QED
    BY <2>1
<1> QED
  BY <1>3, <1>7, <1>8, <1>9

(***************************************************************************)
(* The same, as one statement about the record t that a packet leaves.     *)
(***************************************************************************)
Followed(r, a, b, t) ==
    \/ /\ seq_diff(r.s_l, b % SeqMod) > Half
       /\ b \div SeqMod < a \div SeqMod
    \/ /\ ~(seq_diff(r.s_l, b % SeqMod) > Half)
       /\ t \in Records /\ t.s_l_set /\ SameLists(t, r)
       /\ t.roc = b \div SeqMod
       /\ t.roc = Newest(a, b) \div SeqMod
       /\ (IF b % SeqMod > t.s_l THEN b % SeqMod ELSE t.s_l) = Newest(a, b) % SeqMod
       /\ srtp_get_index(t.roc, t.s_l, b % SeqMod) = b
       /\ b <= a => t = r

(* A packet in reach brings the stream to the newer index.                 *)
LEMMA FollowsAll ==
    ASSUME SrtpAssumption, NEW r \in Records, NEW a \in Nat, NEW b \in Nat,
           At(r, a), b - a <= Half, a - b < Half, b < IntMod \div 2
    PROVE  Followed(r, a, b, Rolled(r, b % SeqMod))
<1> DEFINE t == Rolled(r, b % SeqMod)
<1>1. t = Rolled(r, b % SeqMod)
  OBVIOUS
<1> HIDE DEF t
<1>2. Followed(r, a, b, t)
  BY <1>1, Follows DEF Followed
<1> QED
  BY <1>2 DEF t

(***************************************************************************)
(* A later index has no smaller roll-over counter.                         *)
(***************************************************************************)
LEMMA Mono ==
    ASSUME NEW m \in Nat \ {0}, NEW a \in Nat, NEW b \in Nat, a <= b
    PROVE  a \div m <= b \div m
<1> DEFINE q == a \div m
           p == b \div m
           l == a % m
           t == b % m
<1>1. q \in Nat /\ l \in 0 .. (m - 1) /\ a = m * q + l
  BY Zenon, Split
<1>2. p \in Nat /\ t \in 0 .. (m - 1) /\ b = m * p + t
  BY Zenon, Split
<1> HIDE DEF q, p, l, t
<1>3. ASSUME p < q PROVE FALSE
  <2>1. m * q >= m * p + m
    BY <1>1, <1>2, <1>3, Apart
  <2>2. m * q \in Nat /\ m * p \in Nat
    BY <1>1, <1>2
  <2> QED
    BY <1>1, <1>2, <2>1, <2>2
<1>4. q <= p
  BY <1>1, <1>2, <1>3
<1> QED
  BY <1>4 DEF q, p

(***************************************************************************)
(* The packet with index i.                                                *)
(***************************************************************************)
LEMMA PacketOk ==
    ASSUME SrtpAssumption, NEW i \in Nat
    PROVE  /\ Packet(i) \in [seq : Nat, roc : Nat, ix : Nat]
           /\ Packet(i).seq = i % SeqMod /\ Packet(i).roc = i \div SeqMod /\ Packet(i).ix = i
           /\ i % SeqMod \in Nat /\ i \div SeqMod \in Nat
           /\ SeqMod * (i \div SeqMod) + (i % SeqMod) = i
<1>1. SeqMod \in Nat \ {0}
  BY Sizes
<1>2. i \div SeqMod \in Nat /\ i % SeqMod \in 0 .. (SeqMod - 1)
      /\ i = SeqMod * (i \div SeqMod) + (i % SeqMod)
  BY Zenon, <1>1, Split
<1>3. i % SeqMod \in Nat
  BY <1>1, <1>2
<1> QED
  BY <1>2, <1>3 DEF Packet

(***************************************************************************)
(* Before the first roll-over a sequence number is the index.              *)
(***************************************************************************)
LEMMA Small ==
    ASSUME SrtpAssumption, NEW i \in 0 .. (SeqMod - 1)
    PROVE  i % SeqMod = i /\ i \div SeqMod = 0
  BY Sizes, ModSmall

(***************************************************************************)
(* What the sender does leaves the receiver's part of the invariant alone. *)
(***************************************************************************)
LEMMA ReceiverSame ==
    ASSUME NEW s \in Ssrcs, ReceiverOk(s), hi \in [Ssrcs -> Nat],
           Len(sent[s]) \in Nat, Len(sent[s])' \in Nat, Len(sent[s])' >= Len(sent[s]),
           start' = start, rx'[s] = rx[s], hi'[s] = hi[s], got'[s] = got[s]
    PROVE  ReceiverOk(s)'
  BY DEF ReceiverOk, At

(***************************************************************************)
(* What Append does.                                                       *)
(***************************************************************************)
LEMMA Appended ==
    ASSUME NEW S, NEW q \in Seq(S), NEW e \in S
    PROVE  /\ Len(Append(q, e)) = Len(q) + 1 /\ Append(q, e)[Len(q) + 1] = e
           /\ \A k \in 1 .. Len(q) : Append(q, e)[k] = q[k]
           /\ Append(q, e) # <<>>
  OBVIOUS

(***************************************************************************)
(* srtp_encrypt: the next packet carries its true index, and the sender's  *)
(* stream is at it.                                                        *)
(***************************************************************************)
LEMMA Encrypts ==
    ASSUME SrtpAssumption, SrtpInv, NEW s \in Ssrcs, srtp_encrypt(s)
    PROVE  SrtpInv'
<1> DEFINE n == Len(sent[s])
           b == start[s] + n
           seq == b % SeqMod
           strm == stream_get_seq(tx[s], seq)
           t == Rolled(strm, seq)
           a == IF n = 0 THEN b ELSE b - 1
<1>1. /\ n < MaxPkt
      /\ sent' = [sent EXCEPT ![s] = Append(@, [seq |-> seq, roc |-> t.roc, ix |-> SeqMod * t.roc + seq])]
      /\ tx' = [tx EXCEPT ![s] = Advance(t, seq)]
      /\ UNCHANGED <<start, rx, hi, got, cgot, last>>
  BY DEF srtp_encrypt, Rolled
<1>2. /\ Kinds /\ SenderOk(s)
  BY DEF SrtpInv
<1>3. /\ n \in Nat /\ start[s] \in 0 .. (Half - 1) /\ tx[s] \in Records
      /\ sent[s] \in Seq([seq : Nat, roc : Nat, ix : Nat]) /\ (n = 0 <=> sent[s] = <<>>)
      /\ Half \in Nat /\ SeqMod = 2 * Half
  BY <1>2, Sizes DEF Kinds
<1>4. b \in Nat /\ a \in Nat /\ a <= b /\ b - a <= Half /\ a - b < Half /\ b < IntMod \div 2
  <2>1. MaxPkt \in Nat /\ MaxPkt + Half <= IntMod \div 2
    BY DEF SrtpAssumption
  <2>2. Half \in Nat \ {0} /\ IntMod \div 2 \in Nat
    BY Sizes
  <2> DEFINE x == start[s]
  <2>3. n \in Nat /\ n < MaxPkt /\ x \in 0 .. (Half - 1) /\ b = x + n
    BY <1>1, <1>3
  <2> HIDE DEF n, x, b
  <2>4. b \in Nat /\ b < IntMod \div 2 /\ (n # 0 => b - 1 \in Nat)
    BY ONLY <2>1, <2>2, <2>3
  <2> QED
    BY ONLY <2>2, <2>4
<1>5. /\ seq \in Nat /\ b \div SeqMod \in Nat /\ SeqMod * (b \div SeqMod) + seq = b
      /\ Packet(b) = [seq |-> seq, roc |-> b \div SeqMod, ix |-> b]
      /\ Packet(b) \in [seq : Nat, roc : Nat, ix : Nat]
  BY <1>4, PacketOk DEF Packet
<1>6. strm \in Records /\ At(strm, a)
  <2>1. CASE n = 0
    <3>1. b \in 0 .. (SeqMod - 1)
      BY <1>3, <2>1
    <3>2. seq = b /\ b \div SeqMod = 0 /\ a = b
      BY <3>1, <2>1, Small
    <3>3. ~tx[s].s_l_set /\ tx[s].roc = 0
      BY <1>2, <1>3, <2>1 DEF SenderOk
    <3>4. tx[s] \in Records /\ seq \in Nat
      BY <1>3, <1>5
    <3>5. strm \in Records /\ strm.s_l_set /\ strm.s_l = seq /\ strm.roc = 0
      BY ONLY <3>3, <3>4, GetSeqDoes
    <3> QED
      BY <3>2, <3>5 DEF At
  <2>2. CASE n # 0
    <3>1. At(tx[s], a)
      BY <1>2, <1>3, <2>2 DEF SenderOk
    <3>2. strm = tx[s]
      BY <1>3, <1>5, <3>1, GetSeqDoes DEF At
    <3> QED
      BY <1>3, <3>1, <3>2
  <2> QED
    BY <2>1, <2>2
<1> HIDE DEF strm, a, t, b, n
<1>7. /\ t \in Records /\ t.s_l_set /\ t.roc = b \div SeqMod
      /\ (IF seq > t.s_l THEN seq ELSE t.s_l) = seq
  <2>1. a \div SeqMod <= b \div SeqMod /\ a \div SeqMod \in Nat
    BY Zenon, <1>4, Sizes, Mono, Split
  <2>2. ~(b \div SeqMod < a \div SeqMod)
    BY <1>5, <2>1
  <2>3. Newest(a, b) = b
    BY <1>4 DEF Newest
  <2>4. t = Rolled(strm, b % SeqMod)
    BY DEF t
  <2> QED
    BY <1>4, <1>6, <2>2, <2>3, <2>4, Follows
<1>8. Advance(t, seq) \in Records /\ At(Advance(t, seq), b)
  BY Zenon, <1>5, <1>7, AdvanceDoes DEF At
<1>9. sent'[s] = Append(sent[s], Packet(b)) /\ tx'[s] = Advance(t, seq)
      /\ \A u \in Ssrcs : u # s => sent'[u] = sent[u] /\ tx'[u] = tx[u]
  BY <1>1, <1>2, <1>5, <1>7 DEF Kinds
<1>10. Kinds'
  <2>1. sent' \in [Ssrcs -> Seq([seq : Nat, roc : Nat, ix : Nat])]
    BY <1>1, <1>2, <1>5, <1>7 DEF Kinds
  <2>2. tx' \in [Ssrcs -> Records]
    BY <1>1, <1>2, <1>8 DEF Kinds
  <2> QED
    BY <1>1, <1>2, <2>1, <2>2 DEF Kinds
<1>11. /\ Len(sent'[s]) = n + 1 /\ sent'[s] # <<>> /\ sent'[s][n + 1] = Packet(b)
       /\ \A k \in 1 .. n : sent'[s][k] = sent[s][k]
  <2> DEFINE Pkts == [seq : Nat, roc : Nat, ix : Nat]
  <2>1. sent[s] \in Seq(Pkts) /\ Packet(b) \in Pkts /\ n = Len(sent[s])
    BY <1>3, <1>5 DEF n
  <2> HIDE DEF Pkts
  <2>2. /\ Len(Append(sent[s], Packet(b))) = n + 1
        /\ Append(sent[s], Packet(b))[n + 1] = Packet(b)
        /\ \A k \in 1 .. n : Append(sent[s], Packet(b))[k] = sent[s][k]
        /\ Append(sent[s], Packet(b)) # <<>>
    BY ONLY <2>1, Appended
  <2> QED
    BY ONLY Zenon, <1>9, <2>2
<1>12. SenderOk(s)'
  <2>1. Len(sent'[s]) <= MaxPkt
    BY <1>1, <1>3, <1>11 DEF SrtpAssumption
  <2>2. \A k \in 1 .. n : sent[s][k] = Packet(start[s] + k - 1)
    BY <1>2 DEF SenderOk, n
  <2>3. start[s] + (n + 1) - 1 = b
    BY <1>3 DEF b
  <2>4. \A k \in 1 .. (n + 1) : sent'[s][k] = Packet(start[s] + k - 1)
    <3>1. \A k \in 1 .. (n + 1) : k \in 1 .. n \/ k = n + 1
      BY ONLY <1>3
    <3> QED
      BY ONLY <1>11, <2>2, <2>3, <3>1
  <2> QED
    BY <1>1, <1>8, <1>9, <1>11, <2>1, <2>3, <2>4 DEF SenderOk, At
<1>13. ASSUME NEW u \in Ssrcs PROVE (SenderOk(u) /\ ReceiverOk(u) /\ ReportsOk(u))'
  <2>1. SenderOk(u) /\ ReceiverOk(u) /\ ReportsOk(u)
    BY DEF SrtpInv
  <2>2. SenderOk(u)'
    BY <1>1, <1>9, <1>12, <2>1 DEF SenderOk, At
  <2>3. Len(sent[u]) \in Nat /\ Len(sent[u])' \in Nat /\ Len(sent[u])' >= Len(sent[u])
    <3>1. CASE u = s
      BY <1>3, <1>11, <3>1 DEF n
    <3>2. CASE u # s
      <4>1. sent[u] \in Seq([seq : Nat, roc : Nat, ix : Nat])
        BY <1>2 DEF Kinds
      <4> QED
        BY <1>9, <3>2, <4>1
    <3> QED
      BY <3>1, <3>2
  <2>4. ReceiverOk(u)'
    BY <1>1, <1>2, <2>1, <2>3, ReceiverSame DEF Kinds
  <2>5. ReportsOk(u)'
    BY ZenonT(30), <1>1, <2>1 DEF ReportsOk
  <2> QED
    BY <2>2, <2>4, <2>5
<1>14. Explained(last)' /\ (Cardinality({u \in Ssrcs : rx[u] # None}) <= SRTP_MAX_STREAMS)'
  BY ZenonT(30), <1>1 DEF SrtpInv, Explained
<1> QED
  BY <1>10, <1>13, <1>14 DEF SrtpInv

(***************************************************************************)
(* What the lemmas need to know about the number of streams.  It follows   *)
(* from the library's facts about finite sets (Countable, at the end).     *)
(***************************************************************************)
StreamsCount ==
    /\ Cardinality({}) = 0
    /\ \A T \in SUBSET Ssrcs : Cardinality(T) \in Nat
    /\ \A T \in SUBSET Ssrcs, s \in Ssrcs : s \notin T => Cardinality(T \cup {s}) = Cardinality(T) + 1

(***************************************************************************)
(* stream_get never makes more than SRTP_MAX_STREAMS streams.              *)
(***************************************************************************)
LEMMA Counts ==
    ASSUME StreamsCount, SrtpAssumption, SrtpInv, NEW s \in Ssrcs, Room(rx, s), NEW r, r # None,
           rx' = [rx EXCEPT ![s] = r]
    PROVE  /\ Cardinality({u \in Ssrcs : rx'[u] # None}) <= SRTP_MAX_STREAMS
           /\ Cardinality({u \in Ssrcs : rx[u] # None}) = SRTP_MAX_STREAMS =>
                Cardinality({u \in Ssrcs : rx'[u] # None}) = SRTP_MAX_STREAMS
<1> DEFINE Old == {u \in Ssrcs : rx[u] # None}
           New == {u \in Ssrcs : rx'[u] # None}
<1>1. /\ IsFiniteSet(Ssrcs) /\ SRTP_MAX_STREAMS \in Nat
      /\ Cardinality(Old) <= SRTP_MAX_STREAMS /\ DOMAIN rx = Ssrcs
      /\ s \in Old \/ Cardinality(Old) < SRTP_MAX_STREAMS
  BY DEF SrtpAssumption, SrtpInv, Room, Kinds
<1>2. Old \in SUBSET Ssrcs /\ Cardinality(Old) \in Nat
  BY DEF StreamsCount
<1>3. New = Old \cup {s}
  BY <1>1
<1> HIDE DEF Old, New
<1>4. CASE s \in Old
  <2>1. New = Old
    BY <1>3, <1>4
  <2> QED
    BY <1>1, <2>1 DEF Old, New
<1>5. CASE s \notin Old
  <2>1. Cardinality(New) = Cardinality(Old) + 1
    BY <1>2, <1>3, <1>5 DEF StreamsCount
  <2>2. Cardinality(Old) < SRTP_MAX_STREAMS
    BY <1>1, <1>5
  <2>3. Cardinality(New) <= SRTP_MAX_STREAMS /\ Cardinality(Old) # SRTP_MAX_STREAMS
    BY ONLY <1>1, <1>2, <2>1, <2>2
  <2> QED
    BY <2>3 DEF Old, New
<1> QED
  BY <1>4, <1>5

(***************************************************************************)
(* srtcp_encrypt moves the index of the reports and nothing else.          *)
(***************************************************************************)
LEMMA ReportSent ==
    ASSUME SrtpAssumption, SrtpInv, NEW s \in Ssrcs, srtcp_encrypt(s)
    PROVE  SrtpInv'
<1> DEFINE k == (tx[s].rtcp_index + 1) % RtcpMod
<1>1. /\ tx' = [tx EXCEPT ![s] = [tx[s] EXCEPT !.rtcp_index = k]]
      /\ UNCHANGED <<start, sent, rx, hi, got, cgot, last>>
  BY DEF srtcp_encrypt
<1>2. Kinds /\ tx[s] \in Records
  BY DEF SrtpInv, Kinds
<1>3. k \in Nat
  <2>1. tx[s].rtcp_index + 1 \in Nat
    BY <1>2 DEF Records
  <2>2. RtcpMod \in Nat \ {0}
    BY DEF SrtpAssumption
  <2>3. k \in 0 .. (RtcpMod - 1)
    BY <2>1, <2>2, Split
  <2> QED
    BY <2>2, <2>3
<1> HIDE DEF k
<1> DEFINE r == [tx[s] EXCEPT !.rtcp_index = k]
<1>4. r \in Records /\ r.s_l_set = tx[s].s_l_set /\ r.roc = tx[s].roc /\ r.s_l = tx[s].s_l
  BY <1>2, <1>3 DEF Records
<1>5. tx' = [tx EXCEPT ![s] = r]
  BY <1>1
<1> HIDE DEF r
<1>6. Kinds'
  BY Zenon, <1>1, <1>2, <1>4, <1>5 DEF Kinds
<1>7. ASSUME NEW u \in Ssrcs PROVE (SenderOk(u) /\ ReceiverOk(u) /\ ReportsOk(u))'
  <2>1. SenderOk(u) /\ ReceiverOk(u) /\ ReportsOk(u)
    BY DEF SrtpInv
  <2>2. /\ tx'[u].s_l_set = tx[u].s_l_set /\ tx'[u].roc = tx[u].roc /\ tx'[u].s_l = tx[u].s_l
    BY <1>2, <1>4, <1>5 DEF Kinds
  <2>3. SenderOk(u)'
    BY <1>1, <2>1, <2>2 DEF SenderOk, At
  <2>4. ReceiverOk(u)' /\ ReportsOk(u)'
    BY <1>1, <2>1 DEF ReceiverOk, ReportsOk, At
  <2> QED
    BY <2>3, <2>4
<1>8. Explained(last)' /\ (Cardinality({u \in Ssrcs : rx[u] # None}) <= SRTP_MAX_STREAMS)'
  BY <1>1 DEF SrtpInv, Explained
<1> QED
  BY <1>6, <1>7, <1>8 DEF SrtpInv

(***************************************************************************)
(* A zeroed stream and a zeroed replay list.                               *)
(***************************************************************************)
LEMMA NewStreamOk ==
    /\ NewStream \in Records /\ ~NewStream.s_l_set /\ NewStream.roc = 0
    /\ NewStream.replay_rtp = srtp_replay_init /\ NewStream.replay_rtcp = srtp_replay_init
    /\ srtp_replay_init \in Lists /\ srtp_replay_init.lix = 0 /\ Remembers(srtp_replay_init, {})
  BY NewListOk DEF NewStream, Records

(***************************************************************************)
(* The stream a packet or a report finds.                                  *)
(***************************************************************************)
LEMMA Found ==
    ASSUME SrtpAssumption, SrtpInv, NEW s \in Ssrcs
    PROVE  LET r == stream_get(rx, s)
           IN  /\ r \in Records /\ r # None
               /\ rx[s] # None => r = rx[s]
               /\ Mode = "ctr" => Remembers(r.replay_rtcp, cgot[s])
               /\ r.s_l_set => rx[s] = r /\ rx[s] # None
               /\ ~r.s_l_set => /\ got[s] = {} /\ hi[s] = 0 /\ r.roc = 0
                                /\ r.replay_rtp = srtp_replay_init
<1>1. rx[s] \in Records \cup {None} /\ None \notin Records /\ ReceiverOk(s) /\ ReportsOk(s)
  BY DEF SrtpInv, Kinds, SrtpAssumption
<1>2. CASE rx[s] = None
  <2>1. stream_get(rx, s) = NewStream
    BY <1>2 DEF stream_get
  <2>2. got[s] = {} /\ hi[s] = 0 /\ cgot[s] = {}
    BY <1>1, <1>2 DEF ReceiverOk, ReportsOk
  <2> QED
    BY ZenonT(30), <1>1, <1>2, <2>1, <2>2, NewStreamOk
<1>3. CASE rx[s] # None
  <2>1. stream_get(rx, s) = rx[s]
    BY <1>3 DEF stream_get
  <2> QED
    BY <1>1, <1>3, <2>1 DEF ReceiverOk, ReportsOk
<1> QED
  BY ZenonT(30), <1>2, <1>3

(***************************************************************************)
(* A handler that found room changes one stream of the receiver: it is     *)
(* enough to show the invariant for that one.                              *)
(***************************************************************************)
LEMMA OneStream ==
    ASSUME StreamsCount, SrtpAssumption, SrtpInv, NEW s \in Ssrcs, Room(rx, s),
           NEW r \in Records, NEW h \in Nat, NEW G \in SUBSET [n : Nat, ix : Nat],
           NEW C \in SUBSET Nat,
           UNCHANGED <<start, tx, sent>>,
           rx' = [rx EXCEPT ![s] = r], hi' = [hi EXCEPT ![s] = h],
           got' = [got EXCEPT ![s] = G], cgot' = [cgot EXCEPT ![s] = C],
           hi[s] <= h, \A g \in got[s] : g \in G \/ g.n <= h - W,
           last' \in Verdicts, Explained(last'),
           ReceiverOk(s)', ReportsOk(s)'
    PROVE  SrtpInv'
<1>1. Kinds
  BY DEF SrtpInv
<1>2. /\ rx'[s] = r /\ hi'[s] = h /\ got'[s] = G
      /\ \A u \in Ssrcs : u # s => /\ rx'[u] = rx[u] /\ hi'[u] = hi[u]
                                   /\ got'[u] = got[u] /\ cgot'[u] = cgot[u]
  BY <1>1 DEF Kinds
<1>3. Kinds'
  BY <1>1 DEF Kinds
<1>4. r # None
  BY DEF SrtpAssumption
<1>5. ASSUME NEW u \in Ssrcs PROVE (SenderOk(u) /\ ReceiverOk(u) /\ ReportsOk(u))'
  <2>1. SenderOk(u) /\ ReceiverOk(u) /\ ReportsOk(u)
    BY DEF SrtpInv
  <2>2. SenderOk(u)'
    BY ZenonT(30), <2>1 DEF SenderOk, At
  <2>3. CASE u = s
    BY <2>2, <2>3
  <2>4. CASE u # s
    <3>1. ReceiverOk(u)'
      BY ZenonT(30), <1>2, <2>1, <2>4 DEF ReceiverOk, At
    <3>2. ReportsOk(u)'
      BY <1>2, <2>1, <2>4 DEF ReportsOk
    <3> QED
      BY <2>2, <3>1, <3>2
  <2> QED
    BY <2>3, <2>4
<1>6. Explained(last)'
  <2> DEFINE l == last'
             u == l.ssrc
  <2> SUFFICES ASSUME l # None, l.res \in {"ETIMEDOUT", "EAUTH", "EALREADY", "ENOSR"}
               PROVE  \/ /\ l.res = "ENOSR"
                         /\ Cardinality({v \in Ssrcs : rx'[v] # None}) = SRTP_MAX_STREAMS
                      \/ \E g \in got'[u] : g.n = l.n
                      \/ l.n <= hi'[u] - W
                      \/ (start'[u] + l.n) \div SeqMod < (start'[u] + hi'[u]) \div SeqMod
    BY ZenonT(30) DEF Explained
  <2>1. l \in Verdicts /\ Explained(l) /\ l # None
        /\ l.res \in {"ETIMEDOUT", "EAUTH", "EALREADY", "ENOSR"}
    OBVIOUS
  <2> HIDE DEF l
  <2>2. u \in Ssrcs /\ l.n \in Nat
    BY ZenonT(30), <2>1 DEF Verdicts
  <2>3. start[u] \in Nat /\ hi[u] \in Nat /\ hi'[u] \in Nat /\ hi[u] <= hi'[u] /\ W \in Nat
    <3>1. start[u] \in 0 .. (Half - 1) /\ Half \in Nat
      BY Zenon, <1>1, <2>2, Sizes DEF Kinds
    <3> QED
      BY <1>1, <1>2, <2>2, <3>1, WAssumption DEF Kinds
  <2> HIDE DEF u
  <2>4. CASE l.res = "ENOSR" /\ Cardinality({v \in Ssrcs : rx[v] # None}) = SRTP_MAX_STREAMS
    BY ZenonT(30), <1>4, <2>4, Counts
  <2>5. CASE \E g \in got[u] : g.n = l.n
    <3>1. PICK g \in got[u] : g.n = l.n
      BY <2>5
    <3>2. CASE u = s
      BY <1>2, <3>1, <3>2
    <3>3. CASE u # s
      BY <1>2, <2>2, <3>1, <3>3 DEF u
    <3> QED
      BY <3>2, <3>3
  <2>6. CASE l.n <= hi[u] - W
    BY <2>2, <2>3, <2>6
  <2>7. CASE (start[u] + l.n) \div SeqMod < (start[u] + hi[u]) \div SeqMod
    <3> DEFINE x == (start[u] + l.n) \div SeqMod
               y == (start[u] + hi[u]) \div SeqMod
               z == (start[u] + hi'[u]) \div SeqMod
    <3>1. x \in Nat /\ y \in Nat /\ z \in Nat
      <4>1. SeqMod \in Nat \ {0}
        BY Sizes
      <4>2. start[u] + l.n \in Nat /\ start[u] + hi[u] \in Nat /\ start[u] + hi'[u] \in Nat
        BY <2>2, <2>3
      <4> QED
        BY <4>1, <4>2, Split
    <3>2. y <= z
      <4>1. SeqMod \in Nat \ {0}
        BY Sizes
      <4>2. start[u] + hi[u] \in Nat /\ start[u] + hi'[u] \in Nat
            /\ start[u] + hi[u] <= start[u] + hi'[u]
        BY <2>3
      <4> QED
        BY <4>1, <4>2, Mono
    <3>3. x < y /\ start'[u] = start[u]
      BY <2>7
    <3> HIDE DEF x, y, z
    <3>4. x < z
      BY <3>1, <3>2, <3>3
    <3> QED
      BY <3>3, <3>4 DEF x, z
  <2> QED
    BY ZenonT(30), <2>1, <2>4, <2>5, <2>6, <2>7 DEF Explained, u
<1>7. Cardinality({v \in Ssrcs : rx'[v] # None}) <= SRTP_MAX_STREAMS
  BY ZenonT(30), <1>4, Counts
<1> QED
  BY <1>3, <1>5, <1>6, <1>7 DEF SrtpInv

(***************************************************************************)
(* A packet or a report that found no room (ENOSR) changes nothing.        *)
(***************************************************************************)
LEMMA Turned ==
    ASSUME StreamsCount, SrtpInv, NEW s \in Ssrcs, ~Room(rx, s), SrtpAssumption, NEW n \in Nat,
           last' = [ssrc |-> s, n |-> n, res |-> "ENOSR"],
           UNCHANGED <<start, tx, sent, rx, hi, got, cgot>>
    PROVE  SrtpInv' /\ Explained(last')
<1>1. last' \in Verdicts /\ last'.res = "ENOSR"
  BY DEF Verdicts
<1>2. Cardinality({u \in Ssrcs : rx[u] # None}) = SRTP_MAX_STREAMS
  <2>2. Cardinality({u \in Ssrcs : rx[u] # None}) \in Nat
    BY DEF StreamsCount
  <2>3. SRTP_MAX_STREAMS \in Nat
    BY DEF SrtpAssumption
  <2>4. /\ Cardinality({u \in Ssrcs : rx[u] # None}) <= SRTP_MAX_STREAMS
        /\ ~(Cardinality({u \in Ssrcs : rx[u] # None}) < SRTP_MAX_STREAMS)
    BY DEF SrtpInv, Room
  <2> QED
    BY <2>2, <2>3, <2>4
<1>3. Explained(last') /\ Explained(last)'
  BY ZenonT(30), <1>1, <1>2 DEF Explained
<1>4. Kinds'
  BY ZenonT(30), <1>1 DEF SrtpInv, Kinds
<1>5. \A u \in Ssrcs : (SenderOk(u) /\ ReceiverOk(u) /\ ReportsOk(u))'
  BY ZenonT(30) DEF SrtpInv, SenderOk, ReceiverOk, ReportsOk, At
<1> QED
  BY Zenon, <1>3, <1>4, <1>5 DEF SrtpInv

(***************************************************************************)
(* Each outcome is a verdict.                                              *)
(***************************************************************************)
LEMMA VerdictOk ==
    ASSUME NEW s \in Ssrcs, NEW n \in Nat,
           NEW res \in {"ok", "ETIMEDOUT", "EAUTH", "EALREADY", "ENOSR", "rtcp ok", "rtcp EALREADY"}
    PROVE  [ssrc |-> s, n |-> n, res |-> res] \in Verdicts
  BY Zenon DEF Verdicts

(***************************************************************************)
(* srtcp_decrypt: refused without room, refused because it was accepted    *)
(* before, or accepted and remembered.                                     *)
(***************************************************************************)
LEMMA ReportReceived ==
    ASSUME StreamsCount, SrtpAssumption, SrtpInv, NEW s \in Ssrcs, NEW i \in 1 .. MaxRtcp, srtcp_decrypt(s, i)
    PROVE  /\ SrtpInv' /\ Explained(last')
           /\ last' # None /\ last'.ssrc = s /\ last'.n = i
           /\ last'.res = "ok" => FALSE
           /\ Mode = "ctr" /\ last'.res = "rtcp ok" => i \notin cgot[s]
<1> DEFINE r == stream_get(rx, s)
           list == srtp_replay_check(r.replay_rtcp, i)
<1>1. UNCHANGED <<start, tx, sent, hi, got>>
  BY ZenonT(30) DEF srtcp_decrypt
<1>2. /\ r \in Records /\ r # None
      /\ Mode = "ctr" => Remembers(r.replay_rtcp, cgot[s])
      /\ r.s_l_set => rx[s] = r /\ rx[s] # None
      /\ ~r.s_l_set => /\ got[s] = {} /\ hi[s] = 0 /\ r.roc = 0
                       /\ r.replay_rtp = srtp_replay_init
      /\ rx[s] # None => r = rx[s]
  BY Zenon, Found
<1>3. i \in Nat
  BY DEF SrtpAssumption
<1>4. Kinds /\ None \notin Verdicts /\ None \notin Records /\ W \in Nat
  BY WAssumption DEF SrtpInv, SrtpAssumption
<1>5. /\ hi' = [hi EXCEPT ![s] = hi[s]] /\ got' = [got EXCEPT ![s] = got[s]]
      /\ hi[s] \in Nat /\ got[s] \in SUBSET [n : Nat, ix : Nat] /\ hi[s] <= hi[s]
      /\ cgot[s] \in SUBSET Nat /\ cgot = [cgot EXCEPT ![s] = cgot[s]]
  BY <1>1, <1>4 DEF Kinds
<1>6. ReceiverOk(s)
  BY DEF SrtpInv
<1>7. CASE ~Room(rx, s)
  <2>1. last' = [ssrc |-> s, n |-> i, res |-> "ENOSR"] /\ UNCHANGED <<rx, cgot>>
    BY <1>7 DEF srtcp_decrypt
  <2>2. SrtpInv' /\ Explained(last')
    BY <1>1, <1>3, <1>7, <2>1, Turned
  <2>3. last' \in Verdicts
    BY <1>3, <2>1 DEF Verdicts
  <2> QED
    BY <1>4, <2>1, <2>2, <2>3
<1>8. CASE Room(rx, s) /\ Mode = "ctr" /\ ~Fresh(r.replay_rtcp, i)
  <2>1. /\ last' = [ssrc |-> s, n |-> i, res |-> "rtcp EALREADY"]
        /\ rx' = [rx EXCEPT ![s] = r] /\ UNCHANGED cgot
    BY ZenonT(30), <1>8 DEF srtcp_decrypt
  <2>2. last' \in Verdicts /\ last' # None /\ last'.res = "rtcp EALREADY"
    BY ZenonT(30), <1>3, <1>4, <2>1, VerdictOk
  <2>3. Explained(last')
    BY ZenonT(30), <2>2 DEF Explained
  <2>4. rx'[s] = r
    BY ZenonT(30), <1>4, <2>1 DEF Kinds
  <2>5. ReceiverOk(s)'
    BY ZenonT(30), <1>1, <1>2, <1>6, <2>4 DEF ReceiverOk, At
  <2>6. ReportsOk(s)'
    BY ZenonT(30), <1>2, <2>1, <2>4 DEF ReportsOk
  <2>7. SrtpInv'
    BY ZenonT(30), <1>1, <1>2, <1>5, <1>8, <2>1, <2>2, <2>3, <2>5, <2>6, OneStream
  <2> QED
    BY Zenon, <2>1, <2>2, <2>3, <2>7
<1>9. CASE Room(rx, s) /\ ~(Mode = "ctr" /\ ~Fresh(r.replay_rtcp, i))
  <2> DEFINE t == IF Mode = "ctr" THEN [r EXCEPT !.replay_rtcp = list] ELSE r
             C == cgot[s] \cup {i}
  <2>1. /\ last' = [ssrc |-> s, n |-> i, res |-> "rtcp ok"]
        /\ rx' = [rx EXCEPT ![s] = t] /\ cgot' = [cgot EXCEPT ![s] = C]
    BY Zenon, <1>9 DEF srtcp_decrypt
  <2>2. last' \in Verdicts /\ last' # None /\ last'.res = "rtcp ok"
    BY ZenonT(30), <1>3, <1>4, <2>1, VerdictOk
  <2>3. Explained(last')
    BY ZenonT(30), <2>2 DEF Explained
  <2>4. Mode = "ctr" => /\ i \notin cgot[s] /\ list \in Lists /\ Remembers(list, C)
    <3> SUFFICES ASSUME Mode = "ctr" PROVE i \notin cgot[s] /\ list \in Lists /\ Remembers(list, C)
      OBVIOUS
    <3>1. r.replay_rtcp \in Lists /\ Remembers(r.replay_rtcp, cgot[s]) /\ Fresh(r.replay_rtcp, i)
      BY Zenon, <1>2, <1>9 DEF Records
    <3> QED
      BY <1>3, <1>5, <3>1, FreshExact, CheckKeeps
  <2> HIDE DEF list
  <2>5. /\ t \in Records /\ t.s_l_set = r.s_l_set /\ t.roc = r.roc /\ t.s_l = r.s_l
        /\ t.replay_rtp = r.replay_rtp /\ (Mode = "ctr" => t.replay_rtcp = list)
    <3>1. CASE Mode = "ctr"
      BY <1>2, <2>4, <3>1 DEF Records
    <3>2. CASE Mode # "ctr"
      BY <1>2, <3>2
    <3> QED
      BY <3>1, <3>2
  <2> HIDE DEF t, r
  <2>6. rx'[s] = t /\ cgot'[s] = C /\ C \in SUBSET Nat /\ t # None
    BY ZenonT(30), <1>3, <1>4, <1>5, <2>1, <2>5 DEF Kinds
  <2>7. ReceiverOk(s)'
    BY ZenonT(30), <1>1, <1>2, <1>6, <2>5, <2>6 DEF ReceiverOk, At
  <2>8. ReportsOk(s)'
    BY ZenonT(30), <2>4, <2>5, <2>6 DEF ReportsOk
  <2> HIDE DEF C
  <2>9. SrtpInv'
    BY ZenonT(30), <1>1, <1>5, <1>9, <2>1, <2>2, <2>3, <2>5, <2>6, <2>7, <2>8, OneStream
  <2> QED
    BY ZenonT(30), <2>1, <2>2, <2>3, <2>4, <2>9
<1> QED
  BY ZenonT(30), <1>7, <1>8, <1>9

(***************************************************************************)
(* Packet n with index b arrives at stream s: r is the stream as it was    *)
(* found, m with its first number set, a the index that it is at.          *)
(***************************************************************************)
Arrives(s, n, r, m, a, b) ==
    /\ b = start[s] + n /\ b \in Nat /\ b < IntMod \div 2 /\ a \in Nat
    /\ b - a <= Half /\ a - b < Half
    /\ r \in Records /\ m \in Records /\ At(m, a)
    /\ r.s_l_set => /\ a = start[s] + hi[s] /\ m = rx[s] /\ rx[s] # None
                    /\ hi[s] < Len(sent[s])
    /\ ~r.s_l_set => a = b /\ hi[s] = 0 /\ got[s] = {}
    /\ m.replay_rtp \in Lists /\ Remembers(m.replay_rtp, {g.ix : g \in got[s]})
    /\ m.replay_rtp.lix = (IF r.s_l_set THEN a ELSE 0)
    /\ \A g \in got[s] : g.ix = start[s] + g.n
    /\ Mode = "ctr" => Remembers(m.replay_rtcp, cgot[s])

(***************************************************************************)
(* The numbers of a packet in reach.                                       *)
(***************************************************************************)
LEMMA Numbers ==
    ASSUME SrtpAssumption, SrtpInv, NEW s \in Ssrcs, NEW n \in 0 .. (MaxPkt - 1), InReach(s, n)
    PROVE  /\ n \in Nat /\ start[s] \in Nat /\ start[s] < Half /\ hi[s] \in Nat
           /\ Len(sent[s]) \in Nat /\ n < Len(sent[s]) /\ n <= hi[s] + Half /\ n > hi[s] - Half
           /\ W \in Nat \ {0} /\ Half \in Nat \ {0} /\ W <= Half /\ SeqMod = 2 * Half
           /\ start[s] + n \in Nat /\ start[s] + n < IntMod \div 2
           /\ sent[s][n + 1] = Packet(start[s] + n)
           /\ got[s] \in SUBSET [n : Nat, ix : Nat] /\ cgot[s] \in SUBSET Nat
<1>1. /\ W \in Nat \ {0} /\ Half \in Nat \ {0} /\ W <= Half /\ SeqMod = 2 * Half
      /\ IntMod \div 2 \in Nat
  BY Sizes
<1>2. MaxPkt \in Nat /\ MaxPkt + Half <= IntMod \div 2
  BY DEF SrtpAssumption
<1>3. Kinds /\ SenderOk(s)
  BY DEF SrtpInv
<1>4. /\ start[s] \in 0 .. (Half - 1) /\ hi[s] \in Nat /\ Len(sent[s]) \in Nat
      /\ got[s] \in SUBSET [n : Nat, ix : Nat] /\ cgot[s] \in SUBSET Nat
  BY <1>3 DEF Kinds
<1>5. n < Len(sent[s]) /\ n <= hi[s] + Half /\ n > hi[s] - Half
  BY DEF InReach
<1> DEFINE x == start[s]
           l == Len(sent[s])
<1>6. x \in 0 .. (Half - 1) /\ l \in Nat /\ n < l /\ n \in 0 .. (MaxPkt - 1)
  BY <1>4, <1>5
<1>7. \A k \in 1 .. l : sent[s][k] = Packet(x + k - 1)
  BY <1>3 DEF SenderOk
<1> HIDE DEF x, l
<1>8. /\ n \in Nat /\ x \in Nat /\ x < Half /\ x + n \in Nat /\ x + n < IntMod \div 2
      /\ n + 1 \in 1 .. l /\ x + (n + 1) - 1 = x + n
  BY ONLY <1>1, <1>2, <1>6
<1>9. sent[s][n + 1] = Packet(x + n)
  BY ONLY <1>7, <1>8
<1> QED
  BY ZenonT(30), <1>1, <1>4, <1>5, <1>8, <1>9 DEF x

(***************************************************************************)
(* What srtp_decrypt finds: a stream at the index of the newest accepted   *)
(* packet, or one that takes its first number from this packet.            *)
(***************************************************************************)
LEMMA Arriving ==
    ASSUME SrtpAssumption, SrtpInv, NEW s \in Ssrcs, NEW n \in 0 .. (MaxPkt - 1), InReach(s, n),
           NEW r, r = stream_get(rx, s),
           NEW b, b = start[s] + n,
           NEW a, a = (IF r.s_l_set THEN start[s] + hi[s] ELSE b),
           NEW m, m = stream_get_seq(r, b % SeqMod)
    PROVE  Arrives(s, n, r, m, a, b)
<1>1. /\ n \in Nat /\ start[s] \in Nat /\ start[s] < Half /\ hi[s] \in Nat
      /\ n <= hi[s] + Half /\ n > hi[s] - Half /\ Half \in Nat \ {0} /\ SeqMod = 2 * Half
      /\ b \in Nat /\ b < IntMod \div 2
  BY Numbers
<1>2. /\ r \in Records /\ r # None
      /\ Mode = "ctr" => Remembers(r.replay_rtcp, cgot[s])
      /\ r.s_l_set => rx[s] = r /\ rx[s] # None
      /\ ~r.s_l_set => /\ got[s] = {} /\ hi[s] = 0 /\ r.roc = 0
                       /\ r.replay_rtp = srtp_replay_init
  BY ZenonT(30), Found
<1>3. b % SeqMod \in Nat
  BY ZenonT(30), <1>1, PacketOk
<1>4. /\ m \in Records /\ m.s_l_set /\ m.roc = r.roc
      /\ m.s_l = (IF r.s_l_set THEN r.s_l ELSE b % SeqMod)
      /\ SameLists(m, r) /\ (r.s_l_set => m = r)
  BY ZenonT(30), <1>2, <1>3, GetSeqDoes
<1>5. m.replay_rtp = r.replay_rtp /\ m.replay_rtcp = r.replay_rtcp /\ m.replay_rtp \in Lists
  BY <1>4 DEF SameLists, Records
<1>6. CASE r.s_l_set
  <2>1. a = start[s] + hi[s] /\ m = rx[s] /\ rx[s] = r /\ rx[s] # None
    BY ZenonT(30), <1>2, <1>4, <1>6
  <2>2. a \in Nat /\ b - a <= Half /\ a - b < Half
    BY ONLY <1>1, <2>1, b = start[s] + n
  <2>3. ReceiverOk(s)
    BY ZenonT(30) DEF SrtpInv
  <2>4. /\ hi[s] < Len(sent[s]) /\ At(m, a) /\ m.replay_rtp.lix = a
        /\ \A g \in got[s] : g.ix = start[s] + g.n
        /\ Remembers(m.replay_rtp, {g.ix : g \in got[s]})
    BY ZenonT(30), <1>6, <2>1, <2>3 DEF ReceiverOk
  <2> QED
    BY ZenonT(30), <1>1, <1>2, <1>4, <1>5, <1>6, <2>1, <2>2, <2>4 DEF Arrives
<1>7. CASE ~r.s_l_set
  <2>1. a = b /\ got[s] = {} /\ hi[s] = 0 /\ r.roc = 0 /\ r.replay_rtp = srtp_replay_init
    BY ZenonT(30), <1>2, <1>7
  <2>2. b \in 0 .. (SeqMod - 1) /\ b - a <= Half /\ a - b < Half
    BY ONLY SMTT(30), <1>1, <2>1, b = start[s] + n
  <2>3. b % SeqMod = b /\ b \div SeqMod = 0
    BY <2>2, Small
  <2>4. At(m, a)
    BY ZenonT(30), <1>4, <1>7, <2>1, <2>3 DEF At
  <2>5. {g.ix : g \in got[s]} = {}
    BY <2>1
  <2>6. Remembers(m.replay_rtp, {g.ix : g \in got[s]}) /\ m.replay_rtp.lix = 0
    BY ZenonT(30), <1>5, <2>1, <2>5, NewStreamOk
  <2> QED
    BY ZenonT(30), <1>1, <1>2, <1>4, <1>5, <1>7, <2>1, <2>2, <2>4, <2>6 DEF Arrives
<1> QED
  BY <1>6, <1>7

(***************************************************************************)
(* A refused packet leaves a known stream as it was.                       *)
(***************************************************************************)
LEMMA Kept ==
    ASSUME StreamsCount, SrtpAssumption, SrtpInv, NEW s \in Ssrcs, Room(rx, s),
           NEW m \in Records, m = rx[s], rx[s] # None, rx' = [rx EXCEPT ![s] = m],
           UNCHANGED <<start, tx, sent, hi, got, cgot>>, last' \in Verdicts, Explained(last')
    PROVE  SrtpInv'
<1>1. Kinds /\ ReceiverOk(s) /\ ReportsOk(s)
  BY DEF SrtpInv
<1>2. /\ hi[s] \in Nat /\ hi[s] <= hi[s] /\ hi' = [hi EXCEPT ![s] = hi[s]]
      /\ got' = [got EXCEPT ![s] = got[s]] /\ cgot' = [cgot EXCEPT ![s] = cgot[s]]
      /\ got[s] \in SUBSET [n : Nat, ix : Nat] /\ cgot[s] \in SUBSET Nat /\ rx'[s] = rx[s]
  BY SMTT(30), <1>1 DEF Kinds
<1>3. ReceiverOk(s)' /\ ReportsOk(s)'
  BY <1>1, <1>2 DEF ReceiverOk, ReportsOk, At
<1> QED
  BY ZenonT(30), <1>2, <1>3, OneStream

(***************************************************************************)
(* A packet in reach that the replay list refuses was accepted before, or  *)
(* is W or more behind.                                                    *)
(***************************************************************************)
LEMMA Known ==
    ASSUME SrtpAssumption, SrtpInv, NEW s \in Ssrcs, NEW n \in 0 .. (MaxPkt - 1), InReach(s, n),
           NEW r, NEW m, NEW a, NEW b, Arrives(s, n, r, m, a, b), ~Fresh(m.replay_rtp, b)
    PROVE  /\ r.s_l_set /\ b <= a
           /\ (\E g \in got[s] : g.n = n) \/ n <= hi[s] - W
<1> DEFINE L == m.replay_rtp
           Ixs == {g.ix : g \in got[s]}
           x == start[s]
           y == hi[s]
<1>1. /\ n \in Nat /\ x \in Nat /\ y \in Nat /\ W \in Nat \ {0}
      /\ got[s] \in SUBSET [n : Nat, ix : Nat]
  BY ZenonT(30), Numbers
<1>2. /\ b = x + n /\ b \in Nat /\ a \in Nat /\ L \in Lists /\ Remembers(L, Ixs)
      /\ L.lix = (IF r.s_l_set THEN a ELSE 0)
      /\ (r.s_l_set => a = x + y) /\ (~r.s_l_set => got[s] = {})
      /\ \A g \in got[s] : g.ix = x + g.n
  BY ZenonT(30) DEF Arrives
<1>3. Ixs \in SUBSET Nat /\ (got[s] = {} => Ixs = {}) /\ ~Fresh(L, b)
      /\ \A g \in got[s] : g.n \in Nat
  BY ZenonT(30), <1>1
<1>4. \A i \in Ixs : i <= L.lix /\ \E g \in got[s] : g.ix = i
  BY ZenonT(30), <1>2 DEF Remembers
<1> HIDE DEF L, Ixs, x, y
<1>5. ~(b \notin Ixs /\ b > L.lix - W)
  BY ONLY ZenonT(30), <1>2, <1>3, FreshExact
<1>6. r.s_l_set
  BY ONLY <1>1, <1>2, <1>3, <1>5
<1>7. L.lix = a /\ a = x + y
  BY ONLY <1>2, <1>6
<1>8. CASE b \in Ixs
  <2>1. PICK g \in got[s] : g.ix = b
    BY <1>4, <1>8
  <2>2. g.n = n
    BY ONLY <1>1, <1>2, <1>3, <2>1
  <2>3. b <= a
    BY <1>4, <1>7, <1>8
  <2> QED
    BY <1>6, <2>2, <2>3
<1>9. CASE b \notin Ixs
  <2>1. b <= a - W
    BY ONLY <1>1, <1>2, <1>5, <1>7, <1>9
  <2>2. b <= a /\ n <= y - W
    BY ONLY <1>1, <1>2, <1>7, <2>1
  <2> QED
    BY <1>6, <2>2 DEF y
<1> QED
  BY ZenonT(30), <1>8, <1>9

(***************************************************************************)
(* An accepted packet: the stream moves to the newer of the two indices,   *)
(* and its replay list remembers what of the accepted packets can still    *)
(* arrive.                                                                 *)
(***************************************************************************)
LEMMA Taken ==
    ASSUME StreamsCount, SrtpAssumption, SrtpInv, NEW s \in Ssrcs, NEW n \in 0 .. (MaxPkt - 1), InReach(s, n),
           Room(rx, s), NEW r, NEW m, NEW a, NEW b, Arrives(s, n, r, m, a, b),
           Fresh(m.replay_rtp, b),
           NEW t \in Records, t.s_l_set, SameLists(t, m), t.roc = Newest(a, b) \div SeqMod,
           NEW seq \in Nat, (IF seq > t.s_l THEN seq ELSE t.s_l) = Newest(a, b) % SeqMod,
           NEW list, list = srtp_replay_check(m.replay_rtp, b),
           UNCHANGED <<start, tx, sent, cgot>>,
           Accept(s, n, b), rx' = [rx EXCEPT ![s] = Advance([t EXCEPT !.replay_rtp = list], seq)]
    PROVE  SrtpInv' /\ \A g \in got[s] : g.n # n
<1> DEFINE L == m.replay_rtp
           Ixs == {g.ix : g \in got[s]}
           x == start[s]
           y == hi[s]
           h == IF n > hi[s] THEN n ELSE hi[s]
           one == [n |-> n, ix |-> b]
           G == {g \in got[s] \cup {one} : g.n > h - Half}
           t1 == [t EXCEPT !.replay_rtp = list]
           t2 == Advance(t1, seq)
<1>1. /\ last' = [ssrc |-> s, n |-> n, res |-> "ok"] /\ rx' = [rx EXCEPT ![s] = t2]
      /\ hi' = [hi EXCEPT ![s] = h] /\ got' = [got EXCEPT ![s] = G]
  BY DEF Accept
<1>2. /\ n \in Nat /\ x \in Nat /\ y \in Nat /\ n > y - Half
      /\ W \in Nat \ {0} /\ Half \in Nat \ {0} /\ W <= Half
      /\ n < Len(sent[s]) /\ Len(sent[s]) \in Nat
  BY Numbers
<1>3. got[s] \in SUBSET [n : Nat, ix : Nat] /\ cgot[s] \in SUBSET Nat
  BY Numbers
<1>4. /\ b = x + n /\ b \in Nat /\ a \in Nat
      /\ (r.s_l_set => a = x + y) /\ (~r.s_l_set => y = 0 /\ a = b)
  BY DEF Arrives
<1>5. L \in Lists /\ Remembers(L, Ixs) /\ L.lix = (IF r.s_l_set THEN a ELSE 0)
  BY DEF Arrives
<1>6. (r.s_l_set => y < Len(sent[s])) /\ (Mode = "ctr" => Remembers(m.replay_rtcp, cgot[s]))
  BY DEF Arrives
<1>7. \A g \in got[s] : g.ix = x + g.n /\ g.n \in Nat /\ g.ix \in Nat /\ g.ix \in Ixs
  BY <1>3 DEF Arrives
<1>8. one.n = n /\ one.ix = b /\ one \in [n : Nat, ix : Nat]
  BY <1>2, <1>4
<1>9. Ixs \in SUBSET Nat /\ h = (IF n > y THEN n ELSE y) /\ Fresh(L, b)
      /\ list = srtp_replay_check(L, b)
  BY <1>7
<1>10. \A i \in Ixs : \E g \in got[s] : g.ix = i
  OBVIOUS
<1>11. hi[s] = y /\ start[s] = x /\ start'[s] = x
  OBVIOUS
<1> HIDE DEF L, Ixs, x, y, h, one
<1>12. /\ list \in Lists /\ list.lix = (IF b > L.lix THEN b ELSE L.lix)
       /\ Remembers(list, Ixs \cup {b}) /\ b \notin Ixs
  BY ONLY <1>4, <1>5, <1>9, FreshExact, CheckKeeps
<1>13. h \in Nat /\ h >= y /\ h >= n /\ n > h - Half /\ Newest(a, b) = x + h
  BY ONLY <1>2, <1>4, <1>9 DEF Newest
<1>14. list.lix = x + h
  BY ONLY <1>2, <1>4, <1>5, <1>9, <1>12, <1>13
<1>15. /\ t1 \in Records /\ t1.s_l_set /\ t1.roc = t.roc /\ t1.s_l = t.s_l
       /\ t1.replay_rtp = list /\ t1.replay_rtcp = t.replay_rtcp
  BY <1>12 DEF Records
<1> HIDE DEF t1
<1>16. /\ t2 \in Records /\ t2.s_l_set /\ t2.roc = t1.roc /\ SameLists(t2, t1)
       /\ t2.s_l = (IF seq > t1.s_l THEN seq ELSE t1.s_l)
  BY <1>15, AdvanceDoes
<1> HIDE DEF t2
<1>17. At(t2, x + h) /\ t2.replay_rtp = list /\ t2.replay_rtcp = m.replay_rtcp
  BY <1>13, <1>15, <1>16 DEF At, SameLists
<1>18. one \in G
  BY <1>8, <1>13
<1>19. ASSUME NEW g \in got[s] PROVE g \in G \/ g.n <= h - W
  <2>1. g.n \in Nat
    BY <1>7
  <2>2. g.n > h - Half \/ g.n <= h - W
    BY ONLY <1>2, <1>13, <2>1
  <2> QED
    BY <2>2
<1>20. \A g \in G : g.ix = x + g.n
  BY <1>4, <1>7, <1>8
<1>21. G \in SUBSET [n : Nat, ix : Nat] /\ G # {}
  BY <1>3, <1>8, <1>18
<1>22. Remembers(list, {g.ix : g \in G})
  <2> DEFINE S == Ixs \cup {b}
             T == {g.ix : g \in G}
  <2>1. S \in SUBSET Nat
    BY <1>4, <1>9
  <2>2. T \in SUBSET S
    BY <1>7, <1>8
  <2>3. ASSUME NEW i \in S, i > list.lix - W PROVE i \in T
    <3>1. PICK g \in got[s] \cup {one} : g.ix = i
      BY <1>8, <1>10, <2>3
    <3>2. g.ix = x + g.n /\ g.n \in Nat
      BY <1>2, <1>4, <1>7, <1>8, <3>1
    <3>3. g.n > h - Half
      BY ONLY <1>2, <1>13, <1>14, <2>3, <3>1, <3>2
    <3> QED
      BY <3>1, <3>3
  <2> HIDE DEF S, T
  <2>4. Remembers(list, S)
    BY SMTT(30), <1>12 DEF S
  <2>5. Remembers(list, T)
    BY ONLY Zenon, <1>12, <2>1, <2>2, <2>3, <2>4, Pruned
  <2> QED
    BY <2>5 DEF T
<1> HIDE DEF G
<1>23. rx'[s] = t2 /\ hi'[s] = h /\ got'[s] = G /\ cgot' = [cgot EXCEPT ![s] = cgot[s]]
  BY <1>1 DEF SrtpInv, Kinds
<1>24. t2 # None /\ last' \in Verdicts /\ last'.res = "ok"
  <2>1. None \notin Records
    BY DEF SrtpAssumption
  <2>2. last' \in Verdicts
    BY ZenonT(30), <1>1, <1>2, VerdictOk
  <2> QED
    BY <1>1, <1>16, <2>1, <2>2
<1>25. h < Len(sent[s])
  BY ONLY <1>2, <1>4, <1>6, <1>9
<1>26. ReceiverOk(s)'
  <2>1. At(rx[s], start[s] + hi[s])'
    BY ONLY <1>11, <1>17, <1>23 DEF At
  <2>2. Remembers(rx[s].replay_rtp, {g.ix : g \in got[s]})'
    BY ONLY <1>17, <1>22, <1>23 DEF Remembers
  <2>3. rx'[s] # None /\ rx'[s].s_l_set /\ rx'[s].replay_rtp.lix = start'[s] + hi'[s]
    BY ONLY <1>11, <1>14, <1>16, <1>17, <1>23, <1>24
  <2>4. hi'[s] < Len(sent'[s]) /\ got'[s] # {}
    BY <1>21, <1>23, <1>25
  <2>5. \A g \in got'[s] : g.ix = start'[s] + g.n
    BY ONLY <1>11, <1>20, <1>23, Zenon
  <2> QED
    BY ONLY ZenonT(30), <2>1, <2>2, <2>3, <2>4, <2>5 DEF ReceiverOk
<1>27. ReportsOk(s)'
  BY <1>6, <1>17, <1>23, <1>24 DEF ReportsOk
<1>28. Explained(last')
  BY <1>24 DEF Explained
<1>29. hi[s] <= h
  BY <1>11, <1>13
<1>30. SrtpInv'
  <2>1. /\ h \in Nat /\ t2 \in Records /\ G \in SUBSET [n : Nat, ix : Nat] /\ cgot[s] \in SUBSET Nat
        /\ \A g \in got[s] : g \in G \/ g.n <= h - W
    BY ONLY <1>3, <1>13, <1>16, <1>19, <1>21
  <2>2. UNCHANGED <<start, tx, sent>>
    OBVIOUS
  <2> QED
    BY ONLY ZenonT(30), StreamsCount, SrtpAssumption, SrtpInv, s \in Ssrcs, Room(rx, s), <1>1, <1>23,
            <1>24, <1>26, <1>27, <1>28, <1>29, <2>1, <2>2, OneStream
<1>31. \A g \in got[s] : g.n # n
  BY <1>4, <1>7, <1>12
<1> QED
  BY <1>30, <1>31

(***************************************************************************)
(* srtp_decrypt keeps the invariant, and what it says of the packet is     *)
(* right: it was refused for a cause (never for its tag), or it is a new   *)
(* one.                                                                    *)
(***************************************************************************)
LEMMA PacketReceived ==
    ASSUME StreamsCount, SrtpAssumption, SrtpInv, NEW s \in Ssrcs, NEW n \in 0 .. (MaxPkt - 1), srtp_decrypt(s, n)
    PROVE  /\ SrtpInv' /\ Explained(last')
           /\ last' # None /\ last'.ssrc = s /\ last'.n = n
           /\ last'.res = "ok" => \A g \in got[s] : g.n # n
           /\ last'.res # "rtcp ok"
<1> DEFINE p == sent[s][n + 1]
           r == stream_get(rx, s)
           m == stream_get_seq(r, p.seq)
           diff == seq_diff(m.s_l, p.seq)
           t == Rolled(m, p.seq)
           ix == srtp_get_index(t.roc, t.s_l, p.seq)
           list == srtp_replay_check(t.replay_rtp, ix)
           b == start[s] + n
           a == IF r.s_l_set THEN start[s] + hi[s] ELSE b
<1>1. InReach(s, n) /\ UNCHANGED <<start, tx, sent, cgot>>
  BY ZenonT(30) DEF srtp_decrypt
<1>2. IF ~Room(rx, s) THEN Refuse(s, n, "ENOSR") /\ UNCHANGED rx
      ELSE IF diff > Half THEN Refuse(s, n, "ETIMEDOUT") /\ rx' = [rx EXCEPT ![s] = m]
      ELSE IF ~Authentic(p, t, ix) THEN Refuse(s, n, "EAUTH") /\ rx' = [rx EXCEPT ![s] = t]
      ELSE IF ~Fresh(t.replay_rtp, ix) THEN Refuse(s, n, "EALREADY") /\ rx' = [rx EXCEPT ![s] = t]
      ELSE /\ Accept(s, n, ix)
           /\ rx' = [rx EXCEPT ![s] = Advance([t EXCEPT !.replay_rtp = list], p.seq)]
  BY ZenonT(30) DEF srtp_decrypt, Rolled
<1>3. n \in Nat /\ b \in Nat /\ p = Packet(b)
  BY ZenonT(30), <1>1, Numbers
<1>4. p.seq = b % SeqMod /\ p.roc = b \div SeqMod /\ p.ix = b /\ p.seq \in Nat
      /\ b \div SeqMod \in Nat
  BY <1>3, PacketOk
<1>5. Arrives(s, n, r, m, a, b)
  BY ZenonT(30), <1>1, <1>4, Arriving
<1>6. t = Rolled(m, b % SeqMod)
  BY ZenonT(30), <1>4
<1>7. a = (IF r.s_l_set THEN start[s] + hi[s] ELSE b) /\ b = start[s] + n
  BY ZenonT(30)
<1>8. diff = seq_diff(m.s_l, b % SeqMod) /\ ix = srtp_get_index(t.roc, t.s_l, b % SeqMod)
      /\ list = srtp_replay_check(t.replay_rtp, ix)
  BY ZenonT(30), <1>4
<1> HIDE DEF p, r, m, diff, t, ix, list, b, a
<1>9. \/ diff > Half /\ b \div SeqMod < a \div SeqMod
      \/ /\ ~(diff > Half)
         /\ t \in Records /\ t.s_l_set /\ SameLists(t, m)
         /\ t.roc = b \div SeqMod /\ t.roc = Newest(a, b) \div SeqMod
         /\ (IF p.seq > t.s_l THEN p.seq ELSE t.s_l) = Newest(a, b) % SeqMod
         /\ ix = b /\ (b <= a => t = m)
  <2>1. /\ m \in Records /\ a \in Nat /\ b \in Nat /\ At(m, a)
        /\ b - a <= Half /\ a - b < Half /\ b < IntMod \div 2
    BY Zenon, <1>5 DEF Arrives
  <2> QED
    <3>1. Followed(m, a, b, t)
      BY ONLY Zenon, SrtpAssumption, <1>6, <2>1, FollowsAll
    <3> DEFINE u == b % SeqMod
    <3>2. p.seq = u /\ diff = seq_diff(m.s_l, u) /\ ix = srtp_get_index(t.roc, t.s_l, u)
      BY <1>4, <1>8
    <3>3. \/ seq_diff(m.s_l, u) > Half /\ b \div SeqMod < a \div SeqMod
          \/ /\ ~(seq_diff(m.s_l, u) > Half)
             /\ t \in Records /\ t.s_l_set /\ SameLists(t, m)
             /\ t.roc = b \div SeqMod /\ t.roc = Newest(a, b) \div SeqMod
             /\ (IF u > t.s_l THEN u ELSE t.s_l) = Newest(a, b) % SeqMod
             /\ srtp_get_index(t.roc, t.s_l, u) = b /\ (b <= a => t = m)
      BY ONLY Zenon, <3>1 DEF Followed
    <3> HIDE DEF u
    <3> QED
      BY ONLY <3>2, <3>3
<1>10. /\ m \in Records /\ (r.s_l_set => m = rx[s] /\ rx[s] # None) /\ (~r.s_l_set => a = b)
       /\ None \notin Verdicts
  BY ZenonT(30), <1>5 DEF Arrives, SrtpAssumption
<1>11. CASE ~Room(rx, s)
  <2>1. last' = [ssrc |-> s, n |-> n, res |-> "ENOSR"] /\ UNCHANGED <<rx, hi, got>>
    BY <1>2, <1>11 DEF Refuse
  <2>2. SrtpInv' /\ Explained(last')
    BY <1>1, <1>3, <1>11, <2>1, Turned
  <2>3. last' \in Verdicts
    BY ZenonT(30), <1>3, <2>1, VerdictOk
  <2> QED
    BY ZenonT(30), <1>10, <2>1, <2>2, <2>3
<1>12. CASE Room(rx, s) /\ diff > Half
  <2>1. last' = [ssrc |-> s, n |-> n, res |-> "ETIMEDOUT"] /\ rx' = [rx EXCEPT ![s] = m]
        /\ UNCHANGED <<hi, got>>
    BY <1>2, <1>12 DEF Refuse
  <2>2. b \div SeqMod < a \div SeqMod
    BY <1>9, <1>12
  <2>3. r.s_l_set
    BY <1>4, <1>10, <2>2
  <2>4. last' \in Verdicts /\ last' # None /\ last'.ssrc = s /\ last'.n = n /\ last'.res = "ETIMEDOUT"
    BY ZenonT(30), <1>3, <1>10, <2>1, VerdictOk
  <2>5. (start[s] + n) \div SeqMod < (start[s] + hi[s]) \div SeqMod
    BY ZenonT(30), <1>7, <2>2, <2>3
  <2>6. Explained(last')
    BY <2>4, <2>5 DEF Explained
  <2>7. SrtpInv'
    BY ZenonT(30), <1>1, <1>10, <1>12, <2>1, <2>3, <2>4, <2>6, Kept
  <2> QED
    BY ZenonT(30), <2>4, <2>6, <2>7
<1>13. CASE Room(rx, s) /\ ~(diff > Half)
  <2>1. /\ t \in Records /\ t.s_l_set /\ SameLists(t, m)
        /\ t.roc = b \div SeqMod /\ t.roc = Newest(a, b) \div SeqMod
        /\ (IF p.seq > t.s_l THEN p.seq ELSE t.s_l) = Newest(a, b) % SeqMod
        /\ ix = b /\ (b <= a => t = m)
    BY <1>9, <1>13
  <2>2. Authentic(p, t, ix)
    BY <1>4, <2>1 DEF Authentic
  <2>3. t.replay_rtp = m.replay_rtp
    BY <2>1 DEF SameLists
  <2>4. CASE ~Fresh(m.replay_rtp, b)
    <3>1. last' = [ssrc |-> s, n |-> n, res |-> "EALREADY"] /\ rx' = [rx EXCEPT ![s] = t]
          /\ UNCHANGED <<hi, got>>
      BY <1>2, <1>13, <2>1, <2>2, <2>3, <2>4 DEF Refuse
    <3>2. /\ r.s_l_set /\ b <= a
          /\ (\E g \in got[s] : g.n = n) \/ n <= hi[s] - W
      BY ZenonT(30), <1>1, <1>5, <2>4, Known
    <3>3. t = m
      BY <2>1, <3>2
    <3>4. last' \in Verdicts /\ last' # None /\ last'.ssrc = s /\ last'.n = n /\ last'.res = "EALREADY"
      BY ZenonT(30), <1>3, <1>10, <3>1, VerdictOk
    <3>5. Explained(last')
      BY <3>2, <3>4 DEF Explained
    <3>6. SrtpInv'
      BY ZenonT(30), <1>1, <1>10, <1>13, <3>1, <3>2, <3>3, <3>4, <3>5, Kept
    <3> QED
      BY <3>4, <3>5, <3>6
  <2>5. CASE Fresh(m.replay_rtp, b)
    <3>1. /\ Accept(s, n, b)
          /\ rx' = [rx EXCEPT ![s] = Advance([t EXCEPT !.replay_rtp = list], p.seq)]
      BY <1>2, <1>13, <2>1, <2>2, <2>3, <2>5
    <3>2. list = srtp_replay_check(m.replay_rtp, b)
      BY <1>8, <2>1, <2>3
    <3>3. SrtpInv' /\ \A g \in got[s] : g.n # n
      BY ZenonT(30), <1>1, <1>4, <1>5, <1>13, <2>1, <2>5, <3>1, <3>2, Taken
    <3>4. last' \in Verdicts /\ last' # None /\ last'.ssrc = s /\ last'.n = n /\ last'.res = "ok"
      BY Zenon, <1>3, <1>10, <3>1, VerdictOk DEF Accept
    <3>5. Explained(last')
      BY <3>4 DEF Explained
    <3> QED
      BY <3>3, <3>4, <3>5
  <2> QED
    BY Zenon, <2>4, <2>5
<1> QED
  BY ZenonT(30), <1>11, <1>12, <1>13

(***************************************************************************)
(* The invariant holds before the first packet.                            *)
(***************************************************************************)
LEMMA Begins ==
    ASSUME StreamsCount, SrtpAssumption, SrtpInit
    PROVE  SrtpInv
<1>1. Kinds
  BY NewStreamOk DEF SrtpInit, Kinds
<1>2. ASSUME NEW s \in Ssrcs PROVE SenderOk(s) /\ ReceiverOk(s) /\ ReportsOk(s)
  <2>1. SenderOk(s)
    <3>1. sent[s] = <<>> /\ tx[s] = NewStream /\ MaxPkt \in Nat
      BY DEF SrtpInit, SrtpAssumption
    <3>2. Len(sent[s]) = 0 /\ Len(sent[s]) <= MaxPkt
      BY <3>1
    <3> QED
      BY <3>1, <3>2, NewStreamOk DEF SenderOk
  <2>2. ReceiverOk(s) /\ ReportsOk(s)
    BY Zenon DEF SrtpInit, ReceiverOk, ReportsOk
  <2> QED
    BY SMTT(30), <2>1, <2>2
<1>3. Cardinality({t \in Ssrcs : rx[t] # None}) <= SRTP_MAX_STREAMS
  <2>1. {t \in Ssrcs : rx[t] # None} = {}
    BY DEF SrtpInit
  <2>2. Cardinality({t \in Ssrcs : rx[t] # None}) = 0
    BY <2>1 DEF StreamsCount
  <2>3. SRTP_MAX_STREAMS \in Nat
    BY DEF SrtpAssumption
  <2> QED
    BY <2>2, <2>3
<1>4. Explained(last)
  BY DEF SrtpInit, Explained
<1> QED
  BY SMTT(30), <1>1, <1>2, <1>3, <1>4 DEF SrtpInv

(***************************************************************************)
(* Every step of either end keeps the invariant and obeys the action       *)
(* properties.                                                             *)
(***************************************************************************)
LEMMA SrtpSteps ==
    ASSUME StreamsCount, SrtpAssumption, SrtpInv, [SrtpNext]_srtpVars
    PROVE  SrtpInv' /\ RefusedExplained /\ OnceOnly /\ (Mode = "ctr" => RtcpOnceOnly)
<1>1. Explained(last)
  BY DEF SrtpInv
<1>2. CASE UNCHANGED srtpVars
  <2>1. SrtpInv'
    BY ZenonT(30), <1>2 DEF srtpVars, SrtpInv, Kinds, SenderOk, ReceiverOk, ReportsOk, Explained, At
  <2> QED
    BY <1>1, <1>2, <2>1 DEF srtpVars, RefusedExplained, OnceOnly, RtcpOnceOnly
<1>3. CASE \E s \in Ssrcs : srtp_encrypt(s) \/ srtcp_encrypt(s)
  <2>1. SrtpInv'
    BY <1>3, Encrypts, ReportSent
  <2>2. last' = last
    BY <1>3 DEF srtp_encrypt, srtcp_encrypt
  <2> QED
    BY <1>1, <2>1, <2>2 DEF RefusedExplained, OnceOnly, RtcpOnceOnly
<1>4. ASSUME NEW s \in Ssrcs, NEW n \in 0 .. (MaxPkt - 1), srtp_decrypt(s, n)
      PROVE  SrtpInv' /\ RefusedExplained /\ OnceOnly /\ RtcpOnceOnly
  <2>1. /\ SrtpInv' /\ Explained(last')
        /\ last' # None /\ last'.ssrc = s /\ last'.n = n
        /\ last'.res = "ok" => \A g \in got[s] : g.n # n
        /\ last'.res # "rtcp ok"
    BY ZenonT(30), <1>4, PacketReceived
  <2> QED
    BY ZenonT(30), <2>1 DEF RefusedExplained, OnceOnly, RtcpOnceOnly
<1>5. ASSUME NEW s \in Ssrcs, NEW i \in 1 .. MaxRtcp, srtcp_decrypt(s, i)
      PROVE  SrtpInv' /\ RefusedExplained /\ OnceOnly /\ (Mode = "ctr" => RtcpOnceOnly)
  <2>1. /\ SrtpInv' /\ Explained(last')
        /\ last' # None /\ last'.ssrc = s /\ last'.n = i
        /\ last'.res = "ok" => FALSE
        /\ Mode = "ctr" /\ last'.res = "rtcp ok" => i \notin cgot[s]
    BY Zenon, <1>5, ReportReceived
  <2> QED
    BY ZenonT(30), <2>1 DEF RefusedExplained, OnceOnly, RtcpOnceOnly
<1> QED
  BY <1>2, <1>3, <1>4, <1>5 DEF SrtpNext

(***************************************************************************)
(* The invariant says that the receiver is in step and that both ends used *)
(* one index.                                                              *)
(***************************************************************************)
LEMMA InvKeepsStep ==
    ASSUME SrtpAssumption, SrtpInv
    PROVE  InStep /\ SameIndex
<1>1. InStep
  <2> SUFFICES ASSUME NEW s \in Ssrcs, got[s] # {}
               PROVE  rx[s].roc * SeqMod + rx[s].s_l = start[s] + hi[s]
    BY DEF InStep
  <2>1. start[s] + hi[s] \in Nat
    <3>1. Half \in Nat /\ start[s] \in 0 .. (Half - 1) /\ hi[s] \in Nat
      BY Sizes DEF SrtpInv, Kinds
    <3> QED
      BY <3>1
  <2>2. rx[s].roc = (start[s] + hi[s]) \div SeqMod /\ rx[s].s_l = (start[s] + hi[s]) % SeqMod
    BY ZenonT(30) DEF SrtpInv, ReceiverOk, At
  <2> DEFINE i == start[s] + hi[s]
             q == i \div SeqMod
             l == i % SeqMod
  <2>3. q \in Nat /\ l \in Nat /\ SeqMod \in Nat /\ SeqMod * q + l = i
    BY ZenonT(30), <2>1, PacketOk, Sizes
  <2> HIDE DEF i, q, l
  <2>4. q * SeqMod = SeqMod * q
    BY ONLY <2>3, Commutes
  <2>5. q * SeqMod + l = i
    BY ONLY SMTT(30), <2>3, <2>4
  <2> QED
    BY <2>2, <2>5 DEF i, q, l
<1>2. SameIndex
  <2> SUFFICES ASSUME NEW s \in Ssrcs, NEW g \in got[s]
               PROVE  g.ix = sent[s][g.n + 1].ix
    BY DEF SameIndex
  <2>1. ReceiverOk(s) /\ SenderOk(s) /\ Kinds
    BY DEF SrtpInv
  <2>2. /\ rx[s] # None /\ g.ix = start[s] + g.n /\ hi[s] < Len(sent[s])
        /\ rx[s].replay_rtp.lix = start[s] + hi[s]
        /\ Remembers(rx[s].replay_rtp, {k.ix : k \in got[s]})
    BY ZenonT(30), <2>1 DEF ReceiverOk
  <2>3. g.ix <= start[s] + hi[s]
    BY ZenonT(30), <2>2 DEF Remembers
  <2>4. g.n \in Nat /\ start[s] \in 0 .. (Half - 1) /\ Half \in Nat /\ hi[s] \in Nat /\ Len(sent[s]) \in Nat
    <3>1. g \in [n : Nat, ix : Nat]
      BY <2>1 DEF Kinds
    <3>2. g.n \in Nat
      BY ONLY <3>1
    <3>3. start[s] \in 0 .. (Half - 1) /\ hi[s] \in Nat /\ Len(sent[s]) \in Nat
      BY SMTT(30), <2>1 DEF Kinds
    <3> QED
      BY <3>2, <3>3, Sizes
  <2> DEFINE k == g.n
             x == start[s]
             l == Len(sent[s])
             h == hi[s]
  <2>9. \A j \in 1 .. l : sent[s][j] = Packet(x + j - 1)
    BY ONLY <2>1 DEF SenderOk
  <2>5. k \in Nat /\ x \in Nat /\ g.ix = x + k
    BY <2>2, <2>4
  <2>10. h < l /\ g.ix <= x + h /\ h \in Nat /\ l \in Nat
    BY <2>2, <2>3, <2>4
  <2> HIDE DEF k, x, l, h
  <2>6. k + 1 \in 1 .. l /\ x + (k + 1) - 1 = x + k
    BY ONLY <2>5, <2>10
  <2>7. sent[s][k + 1] = Packet(x + k) /\ x + k \in Nat
    BY ONLY <2>5, <2>6, <2>9
  <2>8. sent[s][k + 1].ix = x + k
    BY Zenon, <2>7, PacketOk
  <2> QED
    BY SMTT(30), <2>5, <2>8 DEF k
<1> QED
  BY <1>1, <1>2

INSTANCE FiniteSetTheorems

(***************************************************************************)
(* The streams can be counted: the sources of a session are finitely many. *)
(***************************************************************************)
LEMMA Countable ==
    ASSUME SrtpAssumption
    PROVE  StreamsCount
<1>1. IsFiniteSet(Ssrcs)
  BY DEF SrtpAssumption
<1>2. Cardinality({}) = 0
  BY FS_EmptySet
<1>3. ASSUME NEW T \in SUBSET Ssrcs
      PROVE  IsFiniteSet(T) /\ Cardinality(T) \in Nat
  BY SMTT(30), <1>1, FS_Subset, FS_CardinalityType
<1>4. ASSUME NEW T \in SUBSET Ssrcs, NEW s \in Ssrcs, s \notin T
      PROVE  Cardinality(T \cup {s}) = Cardinality(T) + 1
  BY <1>3, <1>4, FS_AddElement
<1> QED
  BY <1>2, <1>3, <1>4 DEF StreamsCount

(***************************************************************************)
(* For every size of the number space, every window up to half of it, any  *)
(* number of streams and every limit on them, and for any loss, repetition *)
(* and reordering of packets within half the number space: the two ends of *)
(* SRTP agree on the index of every packet, and the replay lists remember  *)
(* what was accepted (srtp_encrypt, srtp_decrypt, srtcp_encrypt,           *)
(* srtcp_decrypt).                                                         *)
(***************************************************************************)
THEOREM SrtpInvariant == SrtpAssumption => (SrtpSpec => []SrtpInv)
<1> SUFFICES ASSUME SrtpAssumption PROVE SrtpSpec => []SrtpInv
  OBVIOUS
<1>1. SrtpInit => SrtpInv
  BY Begins, Countable
<1>2. SrtpInv /\ [SrtpNext]_srtpVars => SrtpInv'
  BY SrtpSteps, Countable
<1> QED
  BY <1>1, <1>2, PTL DEF SrtpSpec

(***************************************************************************)
(* The receiver stays in step with the sender: its roll-over counter and   *)
(* highest number are the true index of the newest accepted packet, and    *)
(* srtp_get_index computes for every accepted packet the index that        *)
(* srtp_encrypt used.                                                      *)
(***************************************************************************)
THEOREM StreamsInStep == SrtpAssumption => (SrtpSpec => []SrtpKept)
<1> SUFFICES ASSUME SrtpAssumption PROVE SrtpSpec => []SrtpKept
  OBVIOUS
<1>1. SrtpInv => SrtpKept
  BY InvKeepsStep DEF SrtpKept
<1>2. SrtpSpec => []SrtpInv
  BY SrtpInvariant
<1> QED
  BY <1>1, <1>2, PTL

(***************************************************************************)
(* srtp_decrypt hands no packet up twice, and refuses one in reach only    *)
(* because it was accepted before, is W or more behind, is older than the  *)
(* latest roll-over or finds no room; its tag always verifies.             *)
(***************************************************************************)
THEOREM PacketsOnceOnly ==
    SrtpAssumption => (SrtpSpec => [][RefusedExplained /\ OnceOnly]_srtpVars)
<1> SUFFICES ASSUME SrtpAssumption PROVE SrtpSpec => [][RefusedExplained /\ OnceOnly]_srtpVars
  OBVIOUS
<1>1. SrtpInv /\ [SrtpNext]_srtpVars => [RefusedExplained /\ OnceOnly]_srtpVars
  BY SrtpSteps, Countable
<1>2. SrtpSpec => []SrtpInv
  BY SrtpInvariant
<1> QED
  BY <1>1, <1>2, PTL DEF SrtpSpec

(***************************************************************************)
(* Beside an HMAC srtcp_decrypt hands no report up twice, however the      *)
(* reports and the packets of the streams interleave.                      *)
(***************************************************************************)
THEOREM ReportsOnceOnly ==
    SrtpAssumption /\ Mode = "ctr" => (SrtpSpec => [][RtcpOnceOnly]_srtpVars)
<1> SUFFICES ASSUME SrtpAssumption, Mode = "ctr" PROVE SrtpSpec => [][RtcpOnceOnly]_srtpVars
  OBVIOUS
<1>1. SrtpInv /\ [SrtpNext]_srtpVars => [RtcpOnceOnly]_srtpVars
  BY SrtpSteps, Countable
<1>2. SrtpSpec => []SrtpInv
  BY SrtpInvariant
<1> QED
  BY <1>1, <1>2, PTL DEF SrtpSpec
=============================================================================
