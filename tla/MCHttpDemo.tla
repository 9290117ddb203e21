----------------------------- MODULE MCHttpDemo -----------------------------
(* Model-checking instances of the HTTP demo server.                       *)
EXTENDS HttpDemo, TLC

CONSTANTS c1, c2

TwoConns == {c1, c2}

ConnSymmetry == Permutations(TwoConns)
=============================================================================
