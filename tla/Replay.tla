------------------------------- MODULE Replay -------------------------------
(***************************************************************************)
(* The replay list on its own: packet indices arrive in any order, any      *)
(* number of times, and srtp_replay_check decides about each.  `seen' is    *)
(* history: every index accepted.                                           *)
(***************************************************************************)
EXTENDS ReplayList

CONSTANT Indices     \* the packet indices that arrive

ASSUME IndicesAssumption == Indices \subseteq Nat

VARIABLES lix, bitmap, seen, verdict

listVars == <<lix, bitmap, seen, verdict>>

List == [lix |-> lix, bitmap |-> bitmap]

ListInit == /\ lix = srtp_replay_init.lix
            /\ bitmap = srtp_replay_init.bitmap
            /\ seen = {}
            /\ verdict = [ix |-> 0, ok |-> FALSE]

Check(ix) ==
    /\ lix' = srtp_replay_check(List, ix).lix
    /\ bitmap' = srtp_replay_check(List, ix).bitmap
    /\ seen' = IF Fresh(List, ix) THEN seen \cup {ix} ELSE seen
    /\ verdict' = [ix |-> ix, ok |-> Fresh(List, ix)]

ListNext == \E ix \in Indices : Check(ix)

ListSpec == ListInit /\ [][ListNext]_listVars

-----------------------------------------------------------------------------
(***************************************************************************)
(* The bitmap remembers exactly the accepted indices of the last W, however *)
(* they arrive: srtp_replay_check's shift keeps neither too much nor too    *)
(* little, also for the index 0 that the list starts at.                    *)
(***************************************************************************)
WindowExact == Remembers(List, seen)

(***************************************************************************)
(* srtp_replay_check accepts an index exactly when it was not accepted      *)
(* before and is not W or more behind the highest one: no packet of the     *)
(* window is refused for another one's sake, and none passes twice.         *)
(***************************************************************************)
AcceptExactly ==
    [][verdict'.ok <=> /\ verdict'.ix \notin seen
                       /\ verdict'.ix > lix - W]_listVars
=============================================================================
