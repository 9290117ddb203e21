----------------------------- MODULE ReplayList -----------------------------
(***************************************************************************)
(* The replay list of SRTP, src/re/src/srtp/replay.c: the highest index     *)
(* accepted so far and a bitmap of the last W indices.  The bitmap is the   *)
(* set of the positions of its 1 bits; it is W bits wide, so a shift drops  *)
(* what leaves 0..W-1.                                                      *)
(***************************************************************************)
EXTENDS Integers

CONSTANT W      \* SRTP_WINDOW_SIZE, 64 in the code

ASSUME WAssumption == W \in Nat \ {0}

Bits == 0 .. (W - 1)

srtp_replay_init == [lix |-> 0, bitmap |-> {}]

Shift_Keep(b, n) == {i \in Bits : i - n \in b \/ i \in b}

\* bitmap << n
Shift(b, n) == {i \in Bits : i - n \in b}

(***************************************************************************)
(* srtp_replay_check: the new list, and whether the index is accepted.      *)
(***************************************************************************)
Newer(r, ix) ==
    [lix    |-> ix,
     bitmap |-> IF ix - r.lix < W THEN Shift(r.bitmap, ix - r.lix) \cup {0}
                ELSE {0}]

Fresh(r, ix) == \/ ix > r.lix
                \/ r.lix - ix < W /\ r.lix - ix \notin r.bitmap

srtp_replay_check(r, ix) ==
    IF ~Fresh(r, ix) THEN r
    ELSE IF ix > r.lix THEN Newer(r, ix)
    ELSE [r EXCEPT !.bitmap = @ \cup {r.lix - ix}]

Lists == [lix : Nat, bitmap : SUBSET Bits]

(***************************************************************************)
(* What a list is for: it remembers which of the last W indices were        *)
(* accepted, if S are the indices accepted.                                 *)
(***************************************************************************)
Remembers(r, S) ==
    /\ \A i \in S : i <= r.lix
    /\ \A b \in Bits : b \in r.bitmap <=> r.lix - b \in S
=============================================================================
