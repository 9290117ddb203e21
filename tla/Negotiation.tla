---------------------------- MODULE Negotiation ----------------------------
(***************************************************************************)
(* What the demo server promises about descriptions, without connections,  *)
(* peer connections or ICE: a session may take one offer at a time, and a  *)
(* description is sent only for a session that holds an offer, which is    *)
(* used up by it.  So no offer is answered twice, nothing is sent for a    *)
(* session that was never offered anything, and nothing after the session  *)
(* or its peer connection has gone.                                        *)
(***************************************************************************)
EXTENDS Naturals

CONSTANT Peers       \* sessions, not 0

VARIABLES held,      \* the sessions that hold an offer
          sent       \* the session whose description the last step sent, or 0

Init == held = {} /\ sent = 0

Offer(s) ==
  /\ s \notin held
  /\ held' = held \cup {s}
  /\ sent' = 0

(* The description is sent, or lost because nobody waits for it any more.  *)
Answer(s) ==
  /\ s \in held
  /\ held' = held \ {s}
  /\ sent' \in {0, s}

Drop(S) ==
  /\ held' = held \ S
  /\ sent' = 0

Next == \/ \E s \in Peers : Offer(s) \/ Answer(s)
        \/ \E S \in SUBSET Peers : Drop(S)

Spec == Init /\ [][Next]_<<held, sent>>
=============================================================================
