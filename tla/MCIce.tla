------------------------------- MODULE MCIce -------------------------------
(***************************************************************************)
(* Agent a is behind a NAT, so b sees it at n1 and cannot reach its host   *)
(* candidate; both start in one role.                                      *)
(***************************************************************************)
EXTENDS IceAgent

BehindAddr == [a |-> <<"a1">>, b |-> <<"b1">>]
BehindPath == [a |-> [r \in {"b1"} |-> "n1"],
               b |-> [r \in {"a1", "n1"} |-> IF r = "n1" THEN "b1" ELSE NoPath]]

Equal == [l \in {"a1", "n1", "b1"} |-> IF l = "n1" THEN 1 ELSE 2]
TieBreak == [a |-> 2, b |-> 1]
SameRole == [a |-> "controlling", b |-> "controlling"]
=============================================================================
