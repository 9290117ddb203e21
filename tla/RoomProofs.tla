----------------------------- MODULE RoomProofs -----------------------------
(***************************************************************************)
(* The room client: its signalling, then the signalling together with the  *)
(* sessions and peer connections, for any number of feeds, transactions    *)
(* and offers and any retry limit.                                         *)
(***************************************************************************)
EXTENDS RoomClient, TLAPS

-----------------------------------------------------------------------------
(* Facts about sequences.                                                  *)
LEMMA EmptySeq ==
  ASSUME NEW S
  PROVE  <<>> \in Seq(S) /\ Len(<<>>) = 0
  OBVIOUS

LEMMA LenProperties ==
  ASSUME NEW S, NEW s \in Seq(S)
  PROVE  Len(s) \in Nat /\ s \in [1..Len(s) -> S] /\ DOMAIN s = 1..Len(s)
  OBVIOUS

LEMMA ElementOfSeq ==
  ASSUME NEW S, NEW s \in Seq(S), NEW n \in 1..Len(s)
  PROVE  s[n] \in S
  OBVIOUS

LEMMA FunctionIsSeq ==
  ASSUME NEW S, NEW n \in Nat, NEW f \in [1..n -> S]
  PROVE  f \in Seq(S) /\ Len(f) = n
  OBVIOUS

LEMMA SeqMonotonic ==
  ASSUME NEW S, NEW T, NEW s \in Seq(S), S \subseteq T
  PROVE  s \in Seq(T)
  BY LenProperties, FunctionIsSeq

LEMMA ExceptSeq ==
  ASSUME NEW S, NEW s \in Seq(S), NEW i \in 1..Len(s), NEW e \in S
  PROVE  /\ [s EXCEPT ![i] = e] \in Seq(S) /\ Len([s EXCEPT ![i] = e]) = Len(s)
         /\ \A j \in 1..Len(s) : [s EXCEPT ![i] = e][j] = IF j = i THEN e ELSE s[j]
<1>1. [s EXCEPT ![i] = e] \in [1..Len(s) -> S]
  BY LenProperties
<1> QED BY <1>1, LenProperties, FunctionIsSeq

LEMMA AppendProperties ==
  ASSUME NEW S, NEW s \in Seq(S), NEW e \in S
  PROVE  /\ Append(s, e) \in Seq(S) /\ Len(Append(s, e)) = Len(s) + 1
         /\ \A i \in 1..Len(s) : Append(s, e)[i] = s[i]
         /\ Append(s, e)[Len(s) + 1] = e
  OBVIOUS

-----------------------------------------------------------------------------
(* The signalling (Janus).                                                 *)

Kinds == {"create", "attach", "room", "subscribe"}

(* mJanusTransactionMap has one slot for each kind of transaction.         *)
LEMMA SlotOfKind ==
  /\ SlotOf("create") = 0 /\ SlotOf("attach") = 1
  /\ SlotOf("room") = 2 /\ SlotOf("subscribe") = 3
  BY DEF SlotOf

(* The parts of the invariant that requests and slots decide.              *)
Transactions ==
  /\ trans \in 1..MaxTrans /\ slot \in [Slots -> 0..MaxTrans] /\ req \subseteq Requests
  /\ SlotsOk /\ RepliesAwaited

LEMMA TransactionFacts ==
  ASSUME JanusInv
  PROVE  /\ Transactions
         /\ \A r \in req : /\ r \in Requests /\ r.id \in 1..trans
                           /\ r.kind \in Kinds /\ SlotOf(r.kind) \in Slots
         /\ \A i \in Slots : slot[i] \in Nat /\ slot[i] <= trans
<1>1. Transactions
  BY Zenon DEF JanusInv, JanusKept, TypeOK, Transactions
<1>2. \A r \in req : r \in Requests /\ r.id \in 1..MaxTrans /\ r.kind \in Kinds
  BY <1>1 DEF Transactions, Requests, Kinds
<1>3. \A r \in req : r.id <= trans /\ trans \in 1..MaxTrans
  BY <1>1 DEF Transactions, SlotsOk
<1>4. \A r \in req : r.id \in 1..trans
  BY <1>2, <1>3, BoundAssumption
<1>5. \A r \in req : SlotOf(r.kind) \in Slots
  BY <1>2, SlotOfKind DEF Kinds, Slots
<1>6. \A i \in Slots : slot[i] \in Nat /\ slot[i] <= trans
  BY <1>1, BoundAssumption DEF Transactions, SlotsOk
<1> QED BY <1>1, <1>2, <1>4, <1>5, <1>6

(* A reply is taken out of its slot: what is still outstanding is awaited. *)
LEMMA ClearKeeps ==
  ASSUME JanusInv, NEW r \in req, NEW i \in Slots, Holds(i, r.id), ClearOnly(i)
  PROVE  Transactions' /\ req' = req \ {r}
<1> USE BoundAssumption
<1>1. i = SlotOf(r.kind) /\ slot[i] = r.id
  BY DEF JanusInv, SlotsOk, Holds
<1>2. req' = req \ {r}
  BY <1>1 DEF ClearOnly, JanusInv, SlotsOk
<1>3. /\ trans' = trans /\ trans \in 1..MaxTrans
      /\ slot' = [slot EXCEPT ![i] = 0] /\ slot \in [Slots -> 0..MaxTrans]
  BY TransactionFacts DEF ClearOnly, Transactions
<1>4. /\ slot' \in [Slots -> 0..MaxTrans] /\ req' \subseteq Requests
  BY <1>2, <1>3, TransactionFacts DEF Transactions
<1>5. SlotsOk'
  <2>1. \A k \in Slots : slot'[k] \in {0, slot[k]}
    BY <1>3
  <2>2. \A k \in Slots : slot'[k] <= trans'
    BY <1>3, <2>1, TransactionFacts
  <2>3. \A q \in req' : q.id <= trans'
                        /\ \A k \in Slots : slot'[k] = q.id => k = SlotOf(q.kind)
    BY <1>2, <1>3, <2>1, TransactionFacts DEF Transactions, SlotsOk
  <2> QED BY <1>2, <2>2, <2>3, TransactionFacts DEF Transactions, SlotsOk
<1>6. RepliesAwaited'
  <2> SUFFICES ASSUME NEW q \in req, q # r
               PROVE  \/ slot'[SlotOf(q.kind)] = q.id
                      \/ q.kind = "subscribe" /\ slot'[3] > q.id
                      \/ q.kind = "subscribe" /\ slot'[3] = 0 /\ trans' > q.id
    BY <1>2 DEF RepliesAwaited
  <2>1. q.id # r.id /\ q.id \in 1..trans /\ r.id \in 1..trans /\ SlotOf(q.kind) \in Slots
    BY TransactionFacts DEF Transactions, SlotsOk
  <2>2. \/ slot[SlotOf(q.kind)] = q.id
        \/ q.kind = "subscribe" /\ slot[3] > q.id
        \/ q.kind = "subscribe" /\ slot[3] = 0 /\ trans > q.id
    BY DEF JanusInv, JanusKept, RepliesAwaited
  <2>4. 3 \in Slots
    BY DEF Slots
  <2>5. CASE i = 3
    BY <1>1, <1>3, <2>1, <2>2, <2>4, <2>5, SlotOfKind
  <2>6. CASE i # 3
    BY <1>1, <1>3, <2>1, <2>2, <2>4, <2>6
  <2> QED BY <2>5, <2>6
<1> QED BY <1>2, <1>3, <1>4, <1>5, <1>6 DEF Transactions

(* A callback of the handshake starts the next transaction: it is the only *)
(* one then, and its slot is not the one that is cleared.                  *)
LEMMA StartKeeps ==
  ASSUME JanusInv, NEW r \in req, NEW i \in Slots, Holds(i, r.id),
         NEW kind \in {"attach", "room"}, r.kind \notin {kind, "subscribe"},
         NEW h \in Nat, trans < MaxTrans, StartAndClear(i, kind, h, 0)
  PROVE  Transactions' /\ req' = {Request(kind, h, 0)}
<1> USE BoundAssumption
<1>1. i = SlotOf(r.kind) /\ slot[i] = r.id /\ req = {r}
  BY DEF JanusInv, SlotsOk, Holds, ChainOk
<1>2. req' = {Request(kind, h, 0)}
  BY <1>1 DEF StartAndClear
<1>3. SlotOf(kind) \in Slots /\ SlotOf(kind) # i
  BY <1>1, SlotOfKind, TransactionFacts DEF Kinds, Slots
<1>4. /\ trans' = trans + 1 /\ trans \in 1..MaxTrans /\ trans' \in 1..MaxTrans
      /\ slot' = [slot EXCEPT ![SlotOf(kind)] = trans + 1, ![i] = 0]
      /\ slot \in [Slots -> 0..MaxTrans]
  BY TransactionFacts DEF StartAndClear, Transactions
<1>5. /\ slot' \in [Slots -> 0..MaxTrans]
      /\ slot'[SlotOf(kind)] = trans + 1
      /\ \A k \in Slots : k # SlotOf(kind) => slot'[k] \in {0, slot[k]}
  BY <1>3, <1>4
<1>6. /\ Request(kind, h, 0) \in Requests
      /\ Request(kind, h, 0).id = trans + 1 /\ Request(kind, h, 0).kind = kind
  BY <1>4 DEF Request, Requests
<1>7. SlotsOk'
  <2>1. \A k \in Slots : slot'[k] <= trans'
    BY <1>4, <1>5, TransactionFacts
  <2>2. \A k \in Slots : slot'[k] = trans + 1 => k = SlotOf(kind)
    BY <1>4, <1>5, TransactionFacts
  <2> QED BY <1>2, <1>4, <1>6, <2>1, <2>2 DEF SlotsOk
<1>8. RepliesAwaited'
  BY <1>2, <1>5, <1>6 DEF RepliesAwaited
<1> QED BY <1>2, <1>4, <1>5, <1>6, <1>7, <1>8 DEF Transactions

(* A subscription takes slot 3, whatever was there.                        *)
LEMMA SubscribeKeeps ==
  ASSUME JanusInv, NEW f \in Feeds, trans < MaxTrans, trans' = trans + 1,
         slot' = [slot EXCEPT ![3] = trans + 1],
         req' = req \cup {Request("subscribe", 0, f)}
  PROVE  /\ Transactions'
         /\ Request("subscribe", 0, f).kind = "subscribe"
         /\ Request("subscribe", 0, f).for = f
<1> USE BoundAssumption, FeedAssumption
<1> DEFINE new == Request("subscribe", 0, f)
<1>1. trans \in 1..MaxTrans /\ trans' \in 1..MaxTrans /\ slot \in [Slots -> 0..MaxTrans]
  BY TransactionFacts DEF Transactions
<1>2. /\ new \in Requests /\ new.id = trans + 1 /\ new.kind = "subscribe" /\ new.for = f
  BY <1>1 DEF Request, Requests
<1> HIDE DEF new
<1>3. /\ slot' \in [Slots -> 0..MaxTrans] /\ slot'[3] = trans + 1
      /\ \A k \in Slots : k # 3 => slot'[k] = slot[k]
  BY <1>1 DEF Slots
<1>4. req' \subseteq Requests /\ req' = req \cup {new}
  BY <1>2, TransactionFacts DEF new
<1>5. SlotsOk'
  <2>1. \A k \in Slots : slot'[k] <= trans'
    BY <1>1, <1>3, TransactionFacts
  <2>2. \A k \in Slots : slot'[k] = trans + 1 => k = SlotOf(new.kind)
    BY <1>1, <1>2, <1>3, SlotOfKind, TransactionFacts
  <2>3. \A r \in req : r.id <= trans' /\ r.id # new.id
                       /\ \A k \in Slots : slot'[k] = r.id => k = SlotOf(r.kind)
    <3> SUFFICES ASSUME NEW r \in req, NEW k \in Slots
                 PROVE  r.id <= trans' /\ r.id # new.id
                        /\ (slot'[k] = r.id => k = SlotOf(r.kind))
      BY DEF Slots
    <3>1. r.id \in 1..trans
      BY TransactionFacts
    <3>2. slot[k] = r.id => k = SlotOf(r.kind)
      BY TransactionFacts DEF Transactions, SlotsOk
    <3> QED BY <1>1, <1>2, <1>3, <3>1, <3>2
  <2>4. \A r, q \in req : r.id = q.id => r = q
    BY TransactionFacts DEF Transactions, SlotsOk
  <2> QED BY <1>1, <1>2, <1>4, <2>1, <2>2, <2>3, <2>4 DEF SlotsOk
<1>6. RepliesAwaited'
  <2>1. ASSUME NEW r \in req
        PROVE  \/ slot'[SlotOf(r.kind)] = r.id
               \/ r.kind = "subscribe" /\ slot'[3] > r.id
    <3>1. r.id \in 1..trans /\ SlotOf(r.kind) \in Slots /\ r.kind \in Kinds
      BY TransactionFacts
    <3>2. CASE r.kind = "subscribe"
      BY <1>1, <1>3, <3>1, <3>2
    <3>3. CASE r.kind # "subscribe"
      <4>1. slot[SlotOf(r.kind)] = r.id /\ SlotOf(r.kind) # 3
        BY <3>1, <3>3, SlotOfKind, TransactionFacts DEF Transactions, RepliesAwaited, Kinds
      <4> QED BY <1>3, <3>1, <4>1
    <3> QED BY <3>2, <3>3
  <2> QED BY <1>2, <1>3, <1>4, <2>1, SlotOfKind DEF RepliesAwaited
<1> QED BY <1>1, <1>2, <1>3, <1>4, <1>5, <1>6 DEF Transactions, new

(* Handlers that start nothing keep all this, also when a reply that no    *)
(* slot waits for is dropped.                                              *)
LEMMA IdleKeeps ==
  ASSUME JanusInv, trans' = trans, slot' = slot, req' \subseteq req
  PROVE  Transactions'
  BY TransactionFacts DEF Transactions, SlotsOk, RepliesAwaited

-----------------------------------------------------------------------------
(* The parts of the invariant that handles, joins and feeds decide.        *)
Messages ==
  ({"none", "login ok", "feed coming", "leaving", "server error"} \cup Notices)
    \X (Feeds \cup {0})

Joins(n) == [handle : 1..n, feed : Feeds \cup {0}, for : Feeds \cup {0}]

HandleTypes ==
  /\ handles \in Nat /\ pub \in 0..handles /\ lis \in 0..handles
  /\ joins \subseteq Joins(handles) /\ lost \subseteq 1..handles

OtherTypes ==
  /\ hmap \in [0..1 -> Entries]
  /\ offers \in 0..MaxOffers /\ answered \in 0..offers
  /\ feed \in Feeds \cup {0} /\ web \in WebListeners \cup {0}
  /\ told \in Messages /\ refused \in BOOLEAN
  /\ fault \in {"none", "handle", "nacks"}

Rest ==
  /\ HandleTypes /\ OtherTypes /\ JoinsItsFeed /\ NewestOfferTaken /\ HandleFreedOnce
  /\ ChainOk /\ HandlesOk

LEMMA Parts == JanusInv <=> Transactions /\ Rest
  BY Zenon DEF JanusInv, JanusKept, TypeOK, HandleTypes, OtherTypes, Messages, Joins, Rest,
         Transactions

LEMMA PartsNext == Transactions' /\ Rest' => JanusInv'
  BY Zenon DEF JanusInv, JanusKept, TypeOK, HandleTypes, OtherTypes, Messages, Joins, Rest,
         Transactions

LEMMA QuietTyped ==
  /\ Quiet => told' \in Messages
  /\ \A f \in Feeds : <<"feed coming", f>> \in Messages /\ <<"leaving", f>> \in Messages
  /\ \A kind \in Notices : <<kind, 0>> \in Messages
  /\ <<"none", 0>> \in Messages /\ <<"server error", 0>> \in Messages
<1> DEFINE A == {"none", "login ok", "feed coming", "leaving", "server error"} \cup Notices
           B == Feeds \cup {0}
<1>1. \A a \in A, b \in B : <<a, b>> \in Messages
  BY Zenon DEF Messages
<1>2. {"none", "feed coming", "leaving", "server error"} \subseteq A /\ Notices \subseteq A
      /\ Feeds \subseteq B /\ 0 \in B
  BY Zenon
<1> HIDE DEF A, B
<1> QED BY Zenon, <1>1, <1>2 DEF Quiet

(* The server gives out another handle.                                    *)
LEMMA HandlesGrow ==
  ASSUME HandleTypes, handles' \in {handles, handles + 1}, pub' = pub, lis' = lis,
         lost' = lost, joins' \subseteq joins \cup Joins(handles')
  PROVE  HandleTypes'
<1>1. handles' \in Nat /\ handles <= handles' /\ handles \in Nat
  BY DEF HandleTypes
<1>2. Joins(handles) \subseteq Joins(handles')
  BY <1>1 DEF Joins
<1>3. joins' \subseteq Joins(handles')
  BY <1>2 DEF HandleTypes
<1>4. pub' \in 0..handles' /\ lis' \in 0..handles' /\ lost' \subseteq 1..handles'
  BY <1>1 DEF HandleTypes
<1> QED BY <1>1, <1>3, <1>4 DEF HandleTypes

(* A join is a record of its three fields.                                 *)
LEMMA JoinFacts ==
  ASSUME JanusInv
  PROVE  /\ \A j \in joins : /\ j.handle \in 1..handles /\ j.feed \in Feeds \cup {0}
                             /\ j.for \in Feeds \cup {0}
         /\ \A i \in 0..1 : hmap[i] \in Entries /\ hmap[i].id \in Nat /\ hmap[i].id <= handles
         /\ handles \in Nat
<1>1. HandleTypes /\ OtherTypes /\ HandlesOk
  BY Parts DEF Rest
<1>2. handles \in Nat /\ \A j \in joins : j \in Joins(handles)
  BY <1>1 DEF HandleTypes
<1>3. \A j \in Joins(handles) : /\ j.handle \in 1..handles /\ j.feed \in Feeds \cup {0}
                                /\ j.for \in Feeds \cup {0}
  BY DEF Joins
<1>4. \A i \in 0..1 : hmap[i] \in Entries /\ hmap[i].id \in Nat /\ hmap[i].id <= handles
  BY <1>1 DEF OtherTypes, HandlesOk, Entries
<1> QED BY <1>2, <1>3, <1>4

(* The success replies of the handshake.                                   *)
LEMMA HandshakeStep ==
  ASSUME JanusInv, NEW r \in req, NEW i \in Slots,
         SessionCreated(r, i) \/ PublisherAttached(r, i) \/ RoomCreated(r, i)
  PROVE  JanusInv'
<1> USE BoundAssumption, FeedAssumption
<1>0. Rest
  BY Parts
<1>1. CASE SessionCreated(r, i)
  <2>1. Transactions' /\ req' = {Request("attach", 0, 0)}
    BY <1>1, StartKeeps DEF SessionCreated
  <2>2. Request("attach", 0, 0).kind = "attach" /\ req = {r}
    BY <1>0, <1>1 DEF Request, SessionCreated, Rest, ChainOk
  <2>3. HandleTypes' /\ OtherTypes'
    BY Zenon, <1>0, <1>1, QuietTyped DEF SessionCreated, Rest, HandleTypes, OtherTypes
  <2>4. ChainOk'
    BY Zenon, <1>0, <1>1, <2>1, <2>2 DEF SessionCreated, Rest, ChainOk
  <2> QED BY <1>0, <1>1, <2>1, <2>3, <2>4, PartsNext
        DEF SessionCreated, Rest, JoinsItsFeed, NewestOfferTaken, HandleFreedOnce, HandlesOk
<1>2. CASE PublisherAttached(r, i)
  <2>0. handles \in Nat /\ handles' = handles + 1
    BY <1>2, JoinFacts DEF PublisherAttached
  <2>1. Transactions' /\ req' = {Request("room", handles + 1, 0)}
    BY <1>2, <2>0, StartKeeps DEF PublisherAttached
  <2>2. /\ Request("room", handles + 1, 0).kind = "room" /\ req = {r}
        /\ Request("room", handles + 1, 0).handle = handles + 1
    BY <1>0, <1>2 DEF Request, PublisherAttached, Rest, ChainOk
  <2>3. HandleTypes' /\ OtherTypes'
    <3>1. HandleTypes'
      BY <1>0, <1>2, HandlesGrow DEF PublisherAttached, Rest
    <3> QED BY Zenon, <1>0, <1>2, <3>1, QuietTyped DEF PublisherAttached, Rest, OtherTypes
  <2>4. ChainOk'
    BY <1>0, <1>2, <2>0, <2>1, <2>2 DEF PublisherAttached, Rest, ChainOk
  <2>5. HandlesOk'
    BY <1>0, <1>2, <2>0, JoinFacts DEF PublisherAttached, Rest, HandlesOk
  <2> QED BY <1>0, <1>2, <2>1, <2>3, <2>4, <2>5, PartsNext
        DEF PublisherAttached, Rest, JoinsItsFeed, NewestOfferTaken, HandleFreedOnce
<1>3. CASE RoomCreated(r, i)
  <2> DEFINE j == [handle |-> r.handle, feed |-> 0, for |-> 0]
             e == [id |-> r.handle, jh |-> "live", feed |-> feed]
  <2>1. Transactions' /\ req' = {} /\ joins = {} /\ pub = 0 /\ r.handle \in 1..handles
    <3>1. Transactions' /\ req' = req \ {r}
      BY <1>3, ClearKeeps DEF RoomCreated
    <3> QED BY <1>0, <1>3, <3>1 DEF RoomCreated, Rest, ChainOk
  <2>2. joins' = {j} /\ j.handle = r.handle /\ j.feed = 0 /\ j.for = 0
    BY <1>3, <2>1 DEF RoomCreated
  <2>3. /\ hmap' = [hmap EXCEPT ![0] = e] /\ hmap \in [0..1 -> Entries]
        /\ e \in Entries /\ e.id = r.handle /\ e.jh = "live"
    <3>1. feed \in Feeds \cup {0} /\ hmap \in [0..1 -> Entries] /\ r.handle \in Nat
      BY <1>0, <2>1, JoinFacts DEF Rest, OtherTypes
    <3>2. e \in Entries
      BY <3>1 DEF Entries
    <3> QED BY <1>3, <3>1, <3>2 DEF RoomCreated
  <2>4. /\ hmap' \in [0..1 -> Entries] /\ hmap'[0] = e /\ hmap'[1] = hmap[1]
    BY <2>3
  <2>5. joins' \subseteq Joins(handles)
    BY Zenon, <2>1, <2>2 DEF Joins
  <2> HIDE DEF j, e
  <2>6. HandleTypes' /\ OtherTypes'
    BY Zenon, <1>0, <1>3, <2>4, <2>5, QuietTyped DEF RoomCreated, Rest, HandleTypes, OtherTypes
  <2>7. ChainOk'
    BY Zenon, <1>0, <1>3, <2>1, <2>2, <2>3, <2>4 DEF RoomCreated, Rest, ChainOk
  <2>8. HandlesOk'
    BY <1>0, <1>3, <2>1, <2>2, <2>3, <2>4, JoinFacts DEF RoomCreated, Rest, HandlesOk
  <2> QED BY <1>0, <1>3, <2>1, <2>2, <2>4, <2>6, <2>7, <2>8, PartsNext
        DEF RoomCreated, Rest, JoinsItsFeed, NewestOfferTaken, HandleFreedOnce
<1> QED BY <1>1, <1>2, <1>3

(* Replies to subscriptions, unmatched replies and refusals.               *)
LEMMA SubscriptionStep ==
  ASSUME JanusInv, NEW r \in req,
         \/ \E i \in Slots : SubscriberAttached(r, i) \/ Refused(r, i)
         \/ Unmatched(r)
  PROVE  JanusInv'
<1> USE BoundAssumption, FeedAssumption
<1>0. Rest
  BY Parts
<1>1. ASSUME NEW i \in Slots, SubscriberAttached(r, i) PROVE JanusInv'
  <2> DEFINE j == [handle |-> handles + 1, feed |-> feed, for |-> r.for]
             e == [id |-> handles + 1, jh |-> "live", feed |-> feed]
  <2>1. Transactions' /\ req' = req \ {r}
    BY <1>1, ClearKeeps DEF SubscriberAttached
  <2>2. /\ r.for = feed /\ feed # 0 /\ pub # 0 /\ handles \in Nat /\ handles' = handles + 1
        /\ feed \in Feeds
    BY <1>0, <1>1, JoinFacts DEF SubscriberAttached, Rest, ChainOk, OtherTypes
  <2>3. joins' = joins \cup {j} /\ j.handle = handles + 1 /\ j.feed = feed /\ j.for = feed
    BY <1>1, <2>2 DEF SubscriberAttached
  <2>4. /\ hmap' = [hmap EXCEPT ![1] = e] /\ hmap \in [0..1 -> Entries]
        /\ e \in Entries /\ e.id = handles + 1 /\ e.jh = "live"
    <3>1. hmap \in [0..1 -> Entries] /\ handles + 1 \in Nat
      BY <1>0, <2>2 DEF Rest, OtherTypes
    <3>2. e \in Entries
      BY <2>2, <3>1 DEF Entries
    <3> QED BY <1>1, <3>1, <3>2 DEF SubscriberAttached
  <2>5. /\ hmap' \in [0..1 -> Entries] /\ hmap'[1] = e /\ hmap'[0] = hmap[0]
    BY <2>4
  <2>6. j \in Joins(handles')
    <3>1. handles + 1 \in 1..handles'
      BY SMTT(30), <2>2
    <3> QED BY <2>2, <3>1 DEF Joins
  <2> HIDE DEF j, e
  <2>7. HandleTypes' /\ OtherTypes'
    <3>1. HandleTypes'
      BY Zenon, <1>0, <1>1, <2>2, <2>3, <2>6, HandlesGrow DEF SubscriberAttached, Rest
    <3> QED BY Zenon, <1>0, <1>1, <2>5, <3>1, QuietTyped DEF SubscriberAttached, Rest, OtherTypes
  <2>8. ChainOk'
    BY Zenon, <1>0, <1>1, <2>1, <2>2, <2>3, <2>5 DEF SubscriberAttached, Rest, ChainOk
  <2>9. HandlesOk'
    BY <1>0, <1>1, <2>2, <2>3, <2>4, <2>5, JoinFacts DEF SubscriberAttached, Rest, HandlesOk
  <2>10. NewestOfferTaken'
    <3>1. lost' = lost /\ \A h \in lost : h \in 1..handles
      BY Zenon, <1>0, <1>1 DEF SubscriberAttached, Rest, HandleTypes
    <3> QED BY <2>2, <2>4, <2>5, <3>1 DEF NewestOfferTaken
  <2> QED BY <1>0, <1>1, <2>1, <2>3, <2>7, <2>8, <2>9, <2>10, PartsNext
        DEF SubscriberAttached, Rest, JoinsItsFeed, HandleFreedOnce
<1>2. ASSUME NEW i \in Slots, Refused(r, i) PROVE JanusInv'
  <2>1. Transactions' /\ req' = req \ {r}
    BY <1>2, ClearKeeps DEF Refused
  <2>2. HandleTypes' /\ OtherTypes'
    BY Zenon, <1>0, <1>2, QuietTyped DEF Refused, Rest, HandleTypes, OtherTypes
  <2>3. ChainOk'
    BY <1>0, <1>2, <2>1 DEF Refused, Rest, ChainOk
  <2> QED BY <1>0, <1>2, <2>1, <2>2, <2>3, PartsNext
        DEF Refused, Rest, JoinsItsFeed, NewestOfferTaken, HandleFreedOnce, HandlesOk
<1>3. CASE Unmatched(r)
  <2>1. Transactions' /\ req' = req \ {r}
    BY <1>3, IdleKeeps DEF Unmatched
  <2>2. handles \in Nat /\ handles' \in {handles, handles + 1}
    BY <1>3, JoinFacts DEF Unmatched
  <2>3. HandleTypes' /\ OtherTypes'
    <3>1. HandleTypes'
      BY Zenon, <1>0, <1>3, <2>2, HandlesGrow DEF Unmatched, Rest
    <3> QED BY ZenonT(30), <1>0, <1>3, <3>1, QuietTyped DEF Unmatched, Rest, OtherTypes
  <2>4. ChainOk'
    BY Zenon, <1>0, <1>3, <2>1, <2>2 DEF Unmatched, Rest, ChainOk
  <2>5. HandlesOk'
    BY <1>0, <1>3, <2>2, JoinFacts DEF Unmatched, Rest, HandlesOk
  <2> QED BY Zenon, <1>0, <1>3, <2>1, <2>3, <2>4, <2>5, PartsNext
        DEF Unmatched, Rest, JoinsItsFeed, NewestOfferTaken, HandleFreedOnce
<1> QED BY <1>1, <1>2, <1>3

-----------------------------------------------------------------------------
(* A feed is announced: at most a subscription starts, for the one feed    *)
(* the client follows.                                                     *)
LEMMA FeedComingKeeps ==
  ASSUME JanusInv, NEW f \in Feeds, trans < MaxTrans, FeedComing(f),
         \A r \in req : r.kind = "subscribe"
  PROVE  /\ Transactions' /\ told' \in Messages /\ web' \in WebListeners \cup {0}
         /\ feed' \in Feeds /\ (feed # 0 => feed' = feed)
         /\ \A r \in req' : r.kind = "subscribe" /\ r.for = feed'
<1> USE FeedAssumption
<1>0. feed \in Feeds \cup {0} /\ web \in WebListeners \cup {0} /\ 0 \notin Feeds
      /\ \A r \in req : r.for = feed /\ feed # 0
  BY Parts DEF Rest, OtherTypes, ChainOk
<1>1. told' \in Messages /\ web' \in WebListeners \cup {0}
  BY Zenon, <1>0, QuietTyped DEF FeedComing
<1>2. CASE feed \in {0, f}
  <2>1. /\ trans' = trans + 1 /\ feed' = f /\ slot' = [slot EXCEPT ![3] = trans + 1]
        /\ req' = req \cup {Request("subscribe", 0, f)}
    BY Zenon, <1>2 DEF FeedComing
  <2>2. /\ Transactions' /\ Request("subscribe", 0, f).kind = "subscribe"
        /\ Request("subscribe", 0, f).for = f
    BY <2>1, SubscribeKeeps
  <2> QED BY <1>0, <1>1, <1>2, <2>1, <2>2
<1>3. CASE feed \notin {0, f}
  <2>1. UNCHANGED <<trans, feed, slot, req>>
    BY Zenon, <1>3 DEF FeedComing
  <2>2. Transactions'
    BY <2>1, IdleKeeps
  <2> QED BY <1>0, <1>1, <1>3, <2>1, <2>2
<1> QED BY <1>2, <1>3

(* The publisher joins the room; publishers who are there may be announced.*)
LEMMA JoinedStep ==
  ASSUME JanusInv, NEW k \in joins, NEW i \in 0..1, NEW f \in Feeds \cup {0},
         Joined(k.handle, i, f)
  PROVE  JanusInv'
<1> USE BoundAssumption, FeedAssumption
<1> DEFINE j == [handle |-> k.handle, feed |-> 0, for |-> 0]
<1>0. Rest
  BY Parts
<1>1. j \in joins /\ j.feed = 0 /\ j.handle = k.handle /\ k.handle \in 1..handles
  BY JoinFacts DEF Joined
<1>2. /\ joins = {j} /\ req = {} /\ pub = 0 /\ feed = 0
      /\ hmap[0].id = k.handle /\ hmap[0].jh = "live"
  BY <1>0, <1>1 DEF Rest, ChainOk
<1>3. /\ joins' = {} /\ pub' = k.handle /\ fault' = "none" /\ offers' \in {offers, offers + 1}
      /\ AutoPublish => offers < MaxOffers
      /\ AutoPublish <=> offers' # offers
      /\ UNCHANGED <<handles, hmap, answered, lis, lost, refused>>
  <2>1. i = 0
    BY <1>2 DEF Joined, Entry
  <2>2. offers \in Nat
    BY <1>0 DEF Rest, OtherTypes
  <2> QED BY <1>2, <2>1, <2>2 DEF Joined
<1> HIDE DEF j
<1>4. /\ Transactions' /\ told' \in Messages /\ web' \in WebListeners \cup {0}
      /\ feed' \in Feeds \cup {0}
      /\ \A r \in req' : r.kind = "subscribe" /\ r.for = feed' /\ feed' # 0
  <2>1. CASE f = 0
    <3>1. Quiet /\ UNCHANGED <<web, trans, feed, slot, req>>
      BY <2>1 DEF Joined
    <3>2. Transactions'
      BY <3>1, IdleKeeps
    <3> QED BY Zenon, <1>0, <1>2, <3>1, <3>2, QuietTyped DEF Rest, OtherTypes
  <2>2. CASE f # 0
    BY <1>2, <2>2, FeedComingKeeps DEF Joined
  <2> QED BY <2>1, <2>2
<1>5. HandleTypes'
  BY <1>0, <1>1, <1>3 DEF Rest, HandleTypes
<1>6. OtherTypes'
  <2>1. offers' \in 0..MaxOffers /\ answered' \in 0..offers'
    BY <1>0, <1>3 DEF Rest, OtherTypes
  <2> QED BY <1>0, <1>3, <1>4, <2>1 DEF Rest, OtherTypes
<1>7. ChainOk'
  BY <1>1, <1>3, <1>4 DEF ChainOk
<1>8. HandlesOk'
  BY Zenon, <1>0, <1>2, <1>3 DEF Rest, HandlesOk
<1> QED BY <1>0, <1>3, <1>4, <1>5, <1>6, <1>7, <1>8, PartsNext
     DEF Rest, JoinsItsFeed, NewestOfferTaken, HandleFreedOnce

(* A feed is announced after the publisher has joined.                     *)
LEMMA NewPublisherStep ==
  ASSUME JanusInv, NEW f \in Feeds, NewPublisher(f)
  PROVE  JanusInv'
<1> USE BoundAssumption, FeedAssumption
<1>0. Rest /\ pub # 0
  BY Parts DEF NewPublisher
<1>1. \A r \in req : r.kind = "subscribe"
  BY <1>0 DEF Rest, ChainOk
<1>2. /\ Transactions' /\ told' \in Messages /\ web' \in WebListeners \cup {0}
      /\ feed' \in Feeds /\ (feed # 0 => feed' = feed)
      /\ \A r \in req' : r.kind = "subscribe" /\ r.for = feed'
  BY <1>1, FeedComingKeeps DEF NewPublisher
<1>3. UNCHANGED <<handles, hmap, joins, offers, answered, pub, lis, lost, refused, fault>>
  BY Zenon DEF NewPublisher
<1>4. \A k \in joins : k.feed # 0
  BY <1>0 DEF Rest, ChainOk
<1>5. HandleTypes' /\ OtherTypes'
  BY <1>0, <1>2, <1>3 DEF Rest, HandleTypes, OtherTypes
<1>6. ChainOk'
  BY <1>0, <1>2, <1>3, <1>4 DEF ChainOk
<1> QED BY <1>0, <1>2, <1>3, <1>5, <1>6, PartsNext
     DEF Rest, JoinsItsFeed, NewestOfferTaken, HandleFreedOnce, HandlesOk

(* The entry of a handle is freed.                                         *)
LEMMA FreeEntry ==
  ASSUME JanusInv, NEW i \in 0..1, hmap' = [hmap EXCEPT ![i].jh = "freed"]
  PROVE  /\ hmap' \in [0..1 -> Entries]
         /\ \A n \in 0..1 : hmap'[n].id = hmap[n].id
         /\ hmap'[i].jh = "freed" /\ \A n \in 0..1 : n # i => hmap'[n] = hmap[n]
<1>1. hmap \in [0..1 -> Entries]
  BY Parts DEF Rest, OtherTypes
<1> QED BY <1>1 DEF Entries

(* "configured": the answer to an offer, for the publisher's handle.       *)
LEMMA ConfiguredStep ==
  ASSUME JanusInv, NEW i \in 0..1, Configured(i)
  PROVE  JanusInv'
<1> USE BoundAssumption, FeedAssumption
<1>0. Rest /\ pub # 0 /\ answered < offers /\ offers \in Nat /\ answered \in Nat
  BY Parts DEF Configured, Rest, OtherTypes
<1>1. i = 0 /\ hmap[0].id = pub
  BY <1>0 DEF Configured, Entry, Rest, HandlesOk
<1>2. /\ answered' = answered + 1 /\ told' \in Messages
      /\ UNCHANGED <<trans, slot, req, handles, joins, offers, feed, web, pub, lis, lost,
                     refused>>
  BY Zenon, QuietTyped DEF Configured
<1>3. Transactions'
  BY <1>2, IdleKeeps
<1>4. HandleTypes'
  BY <1>0, <1>2 DEF Rest, HandleTypes
<1>5. answered' \in 0..offers' /\ answered' > 0
  BY <1>0, <1>2
<1>6. \A r \in req : r.kind = "subscribe"
  BY <1>0 DEF Rest, ChainOk
<1>7. \A k \in joins : k.feed # 0
  BY <1>0 DEF Rest, ChainOk
<1>8. CASE hmap[0].jh = "live"
  <2>1. hmap' = [hmap EXCEPT ![0].jh = "freed"] /\ fault' = fault
    BY <1>1, <1>8 DEF Configured
  <2>2. /\ hmap' \in [0..1 -> Entries] /\ \A n \in 0..1 : hmap'[n].id = hmap[n].id
        /\ hmap'[0].jh = "freed" /\ hmap'[1] = hmap[1]
    BY <2>1, FreeEntry
  <2>3. OtherTypes'
    BY <1>0, <1>2, <1>5, <2>1, <2>2 DEF Rest, OtherTypes
  <2>4. ChainOk'
    BY <1>0, <1>2, <1>6, <1>7 DEF Rest, ChainOk
  <2>5. HandlesOk'
    BY SMTT(30), <1>0, <1>2, <1>5, <2>2 DEF Rest, HandlesOk
  <2> QED BY <1>0, <1>2, <1>3, <1>4, <2>1, <2>2, <2>3, <2>4, <2>5, PartsNext
       DEF Rest, JoinsItsFeed, NewestOfferTaken, HandleFreedOnce
<1>9. CASE hmap[0].jh # "live"
  <2>1. hmap' = hmap /\ fault' = "handle"
    BY <1>1, <1>9 DEF Configured
  <2>2. hmap[0].jh # "none"
    BY <1>0 DEF Rest, HandlesOk
  <2>3. offers > 1
    BY <1>0, <1>9, <2>2, JoinFacts DEF Rest, HandlesOk, Entries
  <2>4. OtherTypes'
    BY <1>0, <1>2, <1>5, <2>1 DEF Rest, OtherTypes
  <2>5. ChainOk'
    BY <1>0, <1>2, <1>6, <1>7 DEF Rest, ChainOk
  <2>6. HandlesOk'
    BY <1>0, <1>2, <1>5, <2>1 DEF Rest, HandlesOk
  <2> QED BY <1>0, <1>2, <1>3, <1>4, <2>1, <2>3, <2>4, <2>5, <2>6, PartsNext
       DEF Rest, JoinsItsFeed, NewestOfferTaken, HandleFreedOnce
<1> QED BY <1>8, <1>9

(* "attached": the server's offer for a subscriber handle.  The entry that *)
(* holds the handle is the second, and its RtcJanusHandle still lives.     *)
LEMMA AttachedStep ==
  ASSUME JanusInv, NEW j \in joins, NEW i \in 0..1, Attached(j, i)
  PROVE  JanusInv'
<1> USE BoundAssumption, FeedAssumption
<1>0. Rest /\ j.feed # 0 /\ j.handle \in 1..handles
  BY Parts, JoinFacts DEF Attached
<1>1. i = 1 /\ hmap[1].id = j.handle /\ hmap[1].jh = "live"
  <2>1. hmap[0].id < j.handle /\ hmap[0].id \in Nat
    BY <1>0, JoinFacts DEF Rest, HandlesOk
  <2>2. i = 1 /\ hmap[1].id = j.handle
    BY <2>1 DEF Attached, Entry
  <2> QED BY <1>0, <2>2 DEF Rest, HandlesOk
<1>2. /\ joins' = joins \ {j} /\ told' \in Messages
      /\ hmap' = [hmap EXCEPT ![1].jh = "freed"] /\ lis' = j.handle /\ fault' = fault
      /\ UNCHANGED <<trans, slot, req, handles, offers, answered, feed, web, pub, lost,
                     refused>>
  BY Zenon, <1>1, QuietTyped DEF Attached
<1>3. Transactions'
  BY <1>2, IdleKeeps
<1>4. /\ hmap' \in [0..1 -> Entries] /\ hmap'[1].id = hmap[1].id /\ hmap'[0] = hmap[0]
  BY <1>2, FreeEntry
<1>5. HandleTypes'
  BY <1>0, <1>2 DEF Rest, HandleTypes
<1>6. OtherTypes'
  BY <1>0, <1>2, <1>4 DEF Rest, OtherTypes
<1>7. ChainOk'
  BY <1>0, <1>2, <1>4 DEF Rest, ChainOk
<1>8. HandlesOk'
  <2>1. \A k \in joins' : k \in joins /\ k.handle # hmap[1].id
    BY Zenon, <1>0, <1>1, <1>2 DEF Rest, HandlesOk
  <2> QED BY <1>0, <1>2, <1>4, <2>1 DEF Rest, HandlesOk
<1> QED BY <1>0, <1>2, <1>3, <1>4, <1>5, <1>6, <1>7, <1>8, PartsNext
     DEF Rest, JoinsItsFeed, NewestOfferTaken, HandleFreedOnce

(* Joins that end without an entry of the map: the offer came too late, or *)
(* the server refused.                                                     *)
LEMMA JoinEndsStep ==
  ASSUME JanusInv, NEW j \in joins,
         AttachedUnknown(j) \/ \E event \in BOOLEAN : JoinRefused(j, event)
  PROVE  JanusInv'
<1> USE BoundAssumption, FeedAssumption
<1>0. Rest /\ j.handle \in 1..handles
  BY Parts, JoinFacts
<1>1. /\ joins' = joins \ {j} /\ told' \in Messages /\ lost' \subseteq lost \cup {j.handle}
      /\ UNCHANGED <<trans, slot, req, handles, hmap, offers, answered, feed, web, pub,
                     lis, fault>>
      /\ refused' \in BOOLEAN
  <2>1. CASE AttachedUnknown(j)
    BY Zenon, <1>0, <2>1, QuietTyped DEF AttachedUnknown, Rest, OtherTypes
  <2>2. ASSUME NEW event \in BOOLEAN, JoinRefused(j, event)
        PROVE  /\ joins' = joins \ {j} /\ told' \in Messages /\ lost' = lost
               /\ UNCHANGED <<trans, slot, req, handles, hmap, offers, answered, feed, web,
                              pub, lis, fault>>
               /\ refused' \in BOOLEAN
    <3>1. told' \in {<<"server error", 0>>, <<"none", 0>>}
      BY Zenon, <2>2 DEF JoinRefused
    <3>2. refused' \in BOOLEAN
      BY Zenon, <2>2 DEF JoinRefused
    <3> QED BY Zenon, <2>2, <3>1, <3>2, QuietTyped DEF JoinRefused
  <2> QED BY <2>1, <2>2
<1>2. Transactions'
  BY <1>1, IdleKeeps
<1>3. HandleTypes'
  BY <1>0, <1>1 DEF Rest, HandleTypes
<1>4. OtherTypes'
  BY Zenon, <1>0, <1>1 DEF Rest, OtherTypes
<1>5. ChainOk'
  BY Zenon, <1>0, <1>1 DEF Rest, ChainOk
<1>6. HandlesOk'
  BY <1>0, <1>1 DEF Rest, HandlesOk
<1>7. NewestOfferTaken'
  <2>1. CASE AttachedUnknown(j)
    <3>1. j.handle <= hmap[1].id /\ j.handle # hmap[1].id /\ hmap[1].id \in Nat
      BY <1>0, <2>1, JoinFacts DEF AttachedUnknown, Known, Rest, HandlesOk
    <3>2. j.handle < hmap[1].id
      BY SMTT(30), <1>0, <3>1
    <3> QED BY Zenon, <1>0, <1>1, <3>2 DEF Rest, NewestOfferTaken
  <2>2. CASE \E event \in BOOLEAN : JoinRefused(j, event)
    BY Zenon, <1>0, <1>1, <2>2 DEF JoinRefused, Rest, NewestOfferTaken
  <2> QED BY <2>1, <2>2
<1> QED BY <1>0, <1>1, <1>2, <1>3, <1>4, <1>5, <1>6, <1>7, PartsNext
     DEF Rest, JoinsItsFeed, HandleFreedOnce

(* GET /start, and the events that are only passed on.                     *)
LEMMA NoticeStep ==
  ASSUME JanusInv,
         \/ Start \/ ListenerSlowLink
         \/ \E f \in Feeds : Leaving(f) \/ Unpublished(f)
         \/ \E kind \in Notices : Notified(kind)
  PROVE  JanusInv'
<1> USE BoundAssumption, FeedAssumption
<1>0. Rest
  BY Zenon, Parts
<1>1. /\ told' \in Messages /\ fault' \in {fault, "nacks"} /\ web' \in {web, 0}
      /\ UNCHANGED <<trans, slot, req, handles, hmap, joins, feed, pub, lis, lost, refused>>
  BY Zenon, QuietTyped DEF Start, ListenerSlowLink, Leaving, Unpublished, Notified
<1>2. offers' \in 0..MaxOffers /\ answered' \in 0..offers' /\ offers <= offers'
      /\ answered <= answered'
  <2>1. offers \in 0..MaxOffers /\ answered \in 0..offers
    BY <1>0 DEF Rest, OtherTypes
  <2>2. CASE Start
    BY <2>1, <2>2 DEF Start
  <2>3. CASE ~Start
    BY <2>1, <2>3 DEF ListenerSlowLink, Leaving, Unpublished, Notified
  <2> QED BY <2>2, <2>3
<1>3. Transactions'
  BY <1>1, IdleKeeps
<1>4. HandleTypes'
  BY <1>0, <1>1 DEF Rest, HandleTypes
<1>5. OtherTypes'
  BY Zenon, <1>0, <1>1, <1>2 DEF Rest, OtherTypes
<1>6. ChainOk'
  BY ZenonT(30), <1>0, <1>1 DEF Rest, ChainOk
<1>7. HandlesOk'
  BY <1>0, <1>1, <1>2 DEF Rest, HandlesOk, OtherTypes
<1>8. HandleFreedOnce'
  BY <1>0, <1>1, <1>2 DEF Rest, HandleFreedOnce, OtherTypes
<1> QED BY <1>0, <1>1, <1>3, <1>4, <1>5, <1>6, <1>7, <1>8, PartsNext
     DEF Rest, JoinsItsFeed, NewestOfferTaken

(* The state in which the WebSocket has just opened.                       *)
LEMMA JanusInit == Init => JanusInv
<1> SUFFICES ASSUME Init PROVE JanusInv
  OBVIOUS
<1> USE BoundAssumption, FeedAssumption
<1> DEFINE r == [id |-> 1, kind |-> "create", handle |-> 0, for |-> 0]
           e == [id |-> 0, jh |-> "none", feed |-> 0]
<1>0. /\ req = {r} /\ trans = 1 /\ slot = [i \in Slots |-> IF i = 0 THEN 1 ELSE 0]
      /\ handles = 0 /\ joins = {} /\ offers = 0 /\ answered = 0 /\ feed = 0 /\ web = 0
      /\ pub = 0 /\ lis = 0 /\ lost = {} /\ fault = "none"
  BY Zenon DEF Init
<1>1. req = {r} /\ r \in Requests /\ r.id = 1 /\ r.kind = "create"
  <2>1. 1 \in 1..MaxTrans /\ 0 \in Nat
    OBVIOUS
  <2> QED BY Zenon, <1>0, <2>1 DEF Requests
<1>2. trans = 1 /\ slot \in [Slots -> 0..MaxTrans]
      /\ \A i \in Slots : slot[i] = IF i = 0 THEN 1 ELSE 0
  BY SMTT(30), <1>0
<1>3. hmap \in [0..1 -> Entries] /\ \A i \in 0..1 : hmap[i].id = 0 /\ hmap[i].jh = "none"
  <2>1. e \in Entries /\ e.id = 0 /\ e.jh = "none"
    BY DEF Entries
  <2> QED BY Zenon, <2>1 DEF Init
<1> HIDE DEF r
<1>4. Transactions
  BY <1>1, <1>2, SlotOfKind DEF Transactions, SlotsOk, RepliesAwaited, Slots
<1>5. HandleTypes
  BY <1>0 DEF HandleTypes
<1>6. OtherTypes
  <2>1. told \in Messages
    BY Zenon DEF Init, Messages
  <2>2. refused \in BOOLEAN
    BY Zenon DEF Init
  <2> QED BY SMTT(30), <1>0, <1>3, <2>1, <2>2 DEF OtherTypes
<1>7. ChainOk /\ HandlesOk
  BY <1>0, <1>1, <1>3 DEF ChainOk, HandlesOk
<1> QED BY <1>0, <1>4, <1>5, <1>6, <1>7, Parts
     DEF Rest, JoinsItsFeed, NewestOfferTaken, HandleFreedOnce

(***************************************************************************)
(* However replies, events and the user's requests cross, every handler of *)
(* RTCConnection.c keeps the invariant.                                    *)
(***************************************************************************)
LEMMA JanusStep ==
  ASSUME JanusInv, [Next]_vars
  PROVE  JanusInv'
<1>1. CASE UNCHANGED vars
  BY ZenonT(30), <1>1 DEF vars, JanusInv, JanusKept, TypeOK, RepliesAwaited, JoinsItsFeed,
       NewestOfferTaken, HandleFreedOnce, SlotsOk, ChainOk, HandlesOk
<1>2. ASSUME NEW r \in req, Reply(r) PROVE JanusInv'
  BY <1>2, HandshakeStep, SubscriptionStep DEF Reply
<1>3. CASE Next /\ ~Resting /\ ~\E r \in req : Reply(r)
  BY <1>3, JoinedStep, NewPublisherStep, ConfiguredStep, AttachedStep, JoinEndsStep,
     NoticeStep DEF Next
<1> QED BY Zenon, <1>1, <1>2, <1>3 DEF Next, Resting

(* The invariant holds in every state of the conversation.                 *)
THEOREM JanusInvariant == Spec => []JanusInv
  BY JanusStep, JanusInit, PTL DEF Spec

(***************************************************************************)
(* Replies find their slot, subscriptions join the feed they were made     *)
(* for, the newest subscription's offer is taken, and a freed handle is    *)
(* touched only after a second publish (RTCConnection.c, onRTCMessage).    *)
(***************************************************************************)
THEOREM SignallingKept == Spec => []JanusKept
<1>1. JanusInv => JanusKept
  BY DEF JanusInv
<1> QED BY <1>1, JanusInvariant, PTL

-----------------------------------------------------------------------------
(* The sessions and their peer connections (RoomClient).                   *)
USE DEF Stable, HaveLocalOffer, HaveRemoteOffer, SignalingState

-----------------------------------------------------------------------------
(* What the calls of peerconn.c make of one connection.  A NULL pointer.   *)
LEMMA NullPc == NoPc \in Pc /\ ~NoPc.alive /\ ~NoPc.tmr
                /\ \A un, ea, si : ClientPcOk(NoPc, un, ea, si)
<1>1. NoPc \in Pc /\ ~NoPc.alive /\ ~NoPc.tmr
  BY RetryAssumption DEF NoPc, Pc
<1>2. \A un, ea, si : ClientPcOk(NoPc, un, ea, si)
  BY DEF NoPc, ClientPcOk
<1> QED BY <1>1, <1>2

(* client_session_create_pc: alive unless it is NULL, and stable.          *)
LEMMA ClientPcNew ==
  ASSUME NEW offerer \in BOOLEAN, NEW alloc \in Allocs
  PROVE  LET p == ClientPc(offerer, alloc)
         IN  /\ p \in Pc /\ p.ss = Stable /\ (p.alive => p.offerer = offerer)
             /\ ~p.alive => p = NoPc
             /\ ~p.gather_ok /\ ~p.tmr /\ ~p.audio /\ ~p.ice_conn /\ ~p.started /\ ~p.dtls_ok
<1> DEFINE q == NewPc(offerer, alloc = "ok")
<1>1. (alloc = "ok") \in BOOLEAN
  OBVIOUS
<1>2. q \in Pc
  BY Zenon, <1>1, NullPc DEF NewPc, Pc
<1>3. /\ q.alive /\ q.offerer = offerer /\ q.ss = Stable /\ ~q.gather_ok /\ ~q.tmr
      /\ ~q.audio /\ ~q.ice_conn /\ ~q.started /\ ~q.dtls_ok
  BY DEF NewPc, NoPc
<1>4. /\ ~NoPc.alive /\ NoPc.ss = Stable /\ ~NoPc.gather_ok /\ ~NoPc.tmr
      /\ ~NoPc.audio /\ ~NoPc.ice_conn /\ ~NoPc.started /\ ~NoPc.dtls_ok
  BY DEF NoPc
<1>5. ClientPc(offerer, alloc) = NoPc \/ ClientPc(offerer, alloc) = q
  BY DEF ClientPc
<1> HIDE DEF q
<1> QED BY <1>2, <1>3, <1>4, <1>5, NullPc

(* The connection of a published feed, with its offer.                     *)
LEMMA OfferPc ==
  ASSUME NEW alloc \in Allocs
  PROVE  LET q == CreateOffer(ClientPc(TRUE, alloc))
         IN  /\ q \in Pc /\ ClientPcOk(q, FALSE, FALSE, FALSE)
             /\ ~(q.offerer /\ q.ss = Stable /\ q.alive)
<1> DEFINE p == ClientPc(TRUE, alloc)
<1>1. /\ p \in Pc /\ p.ss = Stable /\ (p.alive => p.offerer) /\ (~p.alive => p = NoPc)
      /\ ~p.gather_ok /\ ~p.tmr /\ ~p.audio /\ ~p.ice_conn /\ ~p.started /\ ~p.dtls_ok
  BY Zenon, ClientPcNew
<1> HIDE DEF p
<1>2. CASE p.alive
  <2>1. CreateOffer(p) = [p EXCEPT !.ss = HaveLocalOffer]
    BY <1>1, <1>2 DEF CreateOffer, CreateOfferOk
  <2> QED BY ZenonT(30), <1>1, <1>2, <2>1 DEF Pc, ClientPcOk, p
<1>3. CASE ~p.alive
  BY Zenon, <1>1, <1>3 DEF CreateOffer, CreateOfferOk, ClientPcOk, p
<1> QED BY Zenon, <1>2, <1>3

(* A remote description, an answer to an offerer or an offer to a new      *)
(* connection, leaves the flags of ICE and media alone.                    *)
LEMMA DescribedPc ==
  ASSUME NEW p \in Pc, NEW type \in {"offer", "answer"}, NEW jsep \in Jseps
  PROVE  LET q == Described(p, type, jsep)
         IN  /\ q \in Pc /\ (q = p \/ (p.alive /\ q.alive))
             /\ q.ss = p.ss \/ q.ss = IF type = "offer" THEN HaveRemoteOffer ELSE Stable
             /\ \A f \in {"offerer", "track", "gather_ok", "tmr", "retry", "started",
                          "ice_conn", "dtls_ok", "audio", "alive"} : q[f] = p[f]
             /\ p.sdp_dec_ok => q.sdp_dec_ok
<1> DEFINE ss == IF type = "offer" THEN HaveRemoteOffer ELSE Stable
           dec == p.sdp_dec_ok \/ jsep = "ok"
           r == [p EXCEPT !.ss = ss, !.sdp_dec_ok = dec]
<1>1. dec \in BOOLEAN /\ ss \in SignalingState
  OBVIOUS
<1>2. Described(p, type, jsep) = p \/ (p.alive /\ Described(p, type, jsep) = r)
  BY DEF Described, SetRemoteDescr
<1> HIDE DEF ss, dec
<1>3. r \in Pc
  BY Zenon, <1>1 DEF Pc
<1>4. /\ r.ss = ss /\ r.sdp_dec_ok = dec
      /\ \A f \in {"offerer", "track", "gather_ok", "tmr", "retry", "started",
                   "ice_conn", "dtls_ok", "audio", "alive"} : r[f] = p[f]
  BY DEF Pc
<1> HIDE DEF r
<1>5. p.sdp_dec_ok => r.sdp_dec_ok
  BY Zenon, <1>4 DEF dec
<1> QED BY <1>2, <1>3, <1>4, <1>5 DEF ss

(* The server's answer on the connection of a published feed.              *)
LEMMA AnswerDescribed ==
  ASSUME NEW p \in Pc, NEW jsep \in Jseps, NEW un, NEW ea, NEW si,
         ClientPcOk(p, un, ea, si)
  PROVE  LET q == Described(p, "answer", jsep)
         IN  q \in Pc /\ ClientPcOk(q, un, ea, si)
<1> DEFINE q == Described(p, "answer", jsep)
<1>1. /\ q \in Pc /\ (q = p \/ (p.alive /\ q.alive)) /\ q.ss \in {p.ss, Stable}
      /\ q.gather_ok = p.gather_ok /\ q.tmr = p.tmr /\ q.retry = p.retry
      /\ q.started = p.started /\ q.ice_conn = p.ice_conn /\ q.dtls_ok = p.dtls_ok
      /\ q.audio = p.audio /\ (p.sdp_dec_ok => q.sdp_dec_ok)
  BY DescribedPc
<1> HIDE DEF q
<1>2. ClientPcOk(q, un, ea, si)
  BY <1>1 DEF ClientPcOk
<1> QED BY <1>1, <1>2 DEF q

(* The connection made for an offer of the server: it is answered at once, *)
(* so it never stays in have-remote-offer.                                 *)
LEMMA AnswerPc ==
  ASSUME NEW alloc \in Allocs, NEW jsep \in Jseps
  PROVE  LET q == CreateAnswer(Described(ClientPc(FALSE, alloc), "offer", jsep))
         IN  /\ q \in Pc /\ ClientPcOk(q, FALSE, FALSE, FALSE)
             /\ ~(q.offerer /\ q.ss = Stable /\ q.alive)
<1> DEFINE p == ClientPc(FALSE, alloc)
           r == Described(p, "offer", jsep)
<1>1. /\ p \in Pc /\ p.ss = Stable /\ (p.alive => ~p.offerer) /\ (~p.alive => p = NoPc)
      /\ ~p.gather_ok /\ ~p.tmr /\ ~p.audio /\ ~p.ice_conn /\ ~p.started /\ ~p.dtls_ok
  BY Zenon, ClientPcNew
<1> HIDE DEF p
<1>2. /\ r \in Pc /\ (r = p \/ (p.alive /\ r.alive)) /\ r.ss \in {Stable, HaveRemoteOffer}
      /\ r.offerer = p.offerer /\ r.gather_ok = p.gather_ok /\ r.tmr = p.tmr
      /\ r.audio = p.audio /\ r.ice_conn = p.ice_conn /\ r.started = p.started
      /\ r.dtls_ok = p.dtls_ok
  BY <1>1, DescribedPc
<1> HIDE DEF r
<1>3. CASE r.alive /\ r.ss = HaveRemoteOffer
  <2>1. CreateAnswer(r) = [r EXCEPT !.ss = Stable]
    BY <1>3 DEF CreateAnswer, CreateAnswerOk
  <2> QED BY Zenon, <1>1, <1>2, <1>3, <2>1 DEF Pc, ClientPcOk, r, p
<1>4. CASE ~r.alive
  <2>1. CreateAnswer(r) = r /\ r = p
    BY <1>1, <1>2, <1>4 DEF CreateAnswer, CreateAnswerOk
  <2> QED BY Zenon, <1>1, <1>2, <1>4, <2>1 DEF ClientPcOk, r, p
<1>5. CASE r.alive /\ r.ss # HaveRemoteOffer
  <2>1. CreateAnswer(r) = r
    BY <1>5 DEF CreateAnswer, CreateAnswerOk
  <2> QED BY Zenon, <1>1, <1>2, <1>5, <2>1 DEF ClientPcOk, r, p
<1> QED BY Zenon, <1>3, <1>4, <1>5

(* A connection on which peerconnection_start_ice may be called.           *)
MayStart(p, checks, un, ea, si) ==
  /\ p.alive /\ p.gather_ok /\ ~p.tmr /\ p.ss # HaveRemoteOffer
  /\ p.audio => p.ice_conn /\ p.dtls_ok
  /\ p.ice_conn => p.started
  /\ p.started => p.sdp_dec_ok
  /\ p.dtls_ok /\ ~p.audio => ea \/ (p.ice_conn /\ si)
  /\ p.sdp_dec_ok /\ ~p.started /\ ~checks => un

(***************************************************************************)
(* peerconnection_start_ice on a connection that has just gathered or      *)
(* whose timer has just expired: afterwards the checks run, or the timer   *)
(* is armed, or the retries are used up, or starting failed.               *)
(***************************************************************************)
LEMMA StartIcePc ==
  ASSUME NEW p \in Pc, NEW un, NEW ea, NEW si, NEW checks \in BOOLEAN,
         MayStart(p, checks, un, ea, si)
  PROVE  LET q == StartIce(p, checks)
         IN  /\ q \in Pc /\ ClientPcOk(q, un, ea, si)
             /\ q.offerer = p.offerer /\ q.ss = p.ss /\ q.alive
<1> USE DEF MayStart
<1>1. CASE ~p.sdp_dec_ok /\ p.retry < MaxIceRetries
  <2>1. StartIce(p, checks) = [p EXCEPT !.retry = @ + 1, !.tmr = TRUE]
    BY <1>1 DEF StartIce
  <2>2. p.retry + 1 \in 0..MaxIceRetries
    BY <1>1, RetryAssumption DEF Pc
  <2> DEFINE q == [p EXCEPT !.retry = p.retry + 1, !.tmr = TRUE]
  <2>3. q \in Pc
    BY Zenon, <2>2 DEF Pc
  <2>4. /\ q.tmr /\ q.alive /\ q.gather_ok /\ q.ss = p.ss /\ q.offerer = p.offerer
        /\ q.started = p.started /\ q.ice_conn = p.ice_conn /\ q.audio = p.audio
        /\ q.dtls_ok = p.dtls_ok /\ q.sdp_dec_ok = p.sdp_dec_ok
    BY Zenon DEF Pc
  <2>5. StartIce(p, checks) = q
    BY <2>1
  <2> HIDE DEF q
  <2> QED BY <1>1, <2>3, <2>4, <2>5 DEF ClientPcOk
<1>2. CASE ~p.sdp_dec_ok /\ ~(p.retry < MaxIceRetries)
  <2>1. StartIce(p, checks) = p /\ p.retry = MaxIceRetries
    BY <1>2, RetryAssumption DEF StartIce, Pc
  <2> QED BY <1>2, <2>1 DEF ClientPcOk
<1>3. CASE p.sdp_dec_ok
  <2> DEFINE b == p.started \/ checks
             q == [p EXCEPT !.started = b]
  <2>1. b \in BOOLEAN /\ StartIce(p, checks) = q
    BY <1>3 DEF StartIce
  <2> HIDE DEF b
  <2>2. q \in Pc
    BY Zenon, <2>1 DEF Pc
  <2>3. /\ q.started = b /\ q.tmr = p.tmr /\ q.alive /\ q.gather_ok /\ q.ss = p.ss
        /\ q.offerer = p.offerer /\ q.ice_conn = p.ice_conn /\ q.audio = p.audio
        /\ q.dtls_ok = p.dtls_ok /\ q.sdp_dec_ok = p.sdp_dec_ok
    BY DEF Pc
  <2> HIDE DEF q
  <2> QED BY Zenon, <1>3, <2>1, <2>2, <2>3 DEF ClientPcOk, b
<1> QED BY <1>1, <1>2, <1>3 DEF Pc

(* peerconnection_gather_handler.                                          *)
LEMMA GatheredPc ==
  ASSUME NEW p \in Pc, NEW un, NEW ea, NEW si, NEW checks \in BOOLEAN,
         ClientPcOk(p, un, ea, si), p.alive, p.gather_ok => ~p.tmr,
         NEW u, un => u, p.sdp_dec_ok /\ ~p.started /\ ~checks => u
  PROVE  LET q == StartIce(MnatEstab(p), checks)
         IN  /\ q \in Pc /\ ClientPcOk(q, u, ea, si)
             /\ q.offerer = p.offerer /\ q.ss = p.ss /\ q.alive
<1> DEFINE r == MnatEstab(p)
<1>1. r \in Pc
  BY Zenon DEF MnatEstab, Pc
<1>2. /\ r.gather_ok /\ r.alive /\ r.tmr = p.tmr /\ r.ss = p.ss /\ r.offerer = p.offerer
      /\ r.started = p.started /\ r.ice_conn = p.ice_conn /\ r.audio = p.audio
      /\ r.dtls_ok = p.dtls_ok /\ r.sdp_dec_ok = p.sdp_dec_ok
  BY Zenon DEF MnatEstab, Pc
<1>3. ~r.tmr
  BY <1>2 DEF ClientPcOk, Pc
<1> HIDE DEF r
<1>4. MayStart(r, checks, u, ea, si)
  BY Zenon, <1>2, <1>3 DEF ClientPcOk, MayStart
<1>5. LET q == StartIce(r, checks)
      IN  /\ q \in Pc /\ ClientPcOk(q, u, ea, si)
          /\ q.offerer = r.offerer /\ q.ss = r.ss /\ q.alive
  BY SMTT(30), <1>1, <1>4, StartIcePc
<1> QED BY Zenon, <1>2, <1>5 DEF r

(* The same for a connection whose checks have started: nothing is owed.   *)
LEMMA StartedPc ==
  ASSUME NEW p \in Pc, NEW un, NEW ea, NEW si, NEW checks \in BOOLEAN,
         ClientPcOk(p, un, ea, si), p.alive, p.started
  PROVE  LET q == StartIce(MnatEstab(p), checks)
         IN  /\ q \in Pc /\ ClientPcOk(q, un, ea, si)
             /\ q.offerer = p.offerer /\ q.ss = p.ss /\ q.alive
<1>1. p.gather_ok => ~p.tmr
  BY DEF ClientPcOk
<1>2. (un => un) /\ (p.sdp_dec_ok /\ ~p.started /\ ~checks => un)
  OBVIOUS
<1> QED BY SMTT(30), <1>1, <1>2, GatheredPc

(* ice_tmr expires.                                                        *)
LEMMA IceTmrPc ==
  ASSUME NEW p \in Pc, NEW un, NEW ea, NEW si, NEW checks \in BOOLEAN,
         ClientPcOk(p, un, ea, si), p.alive, p.tmr,
         NEW u, un => u, p.sdp_dec_ok /\ ~p.started /\ ~checks => u
  PROVE  LET q == IceTmr(p, checks)
         IN  /\ q \in Pc /\ ClientPcOk(q, u, ea, si)
             /\ q.offerer = p.offerer /\ q.ss = p.ss /\ q.alive
<1> DEFINE r == [p EXCEPT !.tmr = FALSE]
<1>1. r \in Pc
  BY Zenon DEF Pc
<1>2. /\ ~r.tmr /\ r.gather_ok = p.gather_ok /\ r.alive /\ r.ss = p.ss
      /\ r.offerer = p.offerer
      /\ r.started = p.started /\ r.ice_conn = p.ice_conn /\ r.audio = p.audio
      /\ r.dtls_ok = p.dtls_ok /\ r.sdp_dec_ok = p.sdp_dec_ok
  BY Zenon DEF Pc
<1> HIDE DEF r
<1>3. MayStart(r, checks, u, ea, si)
  BY Zenon, <1>2 DEF ClientPcOk, MayStart
<1>4. LET q == StartIce(r, checks)
      IN  /\ q \in Pc /\ ClientPcOk(q, u, ea, si)
          /\ q.offerer = r.offerer /\ q.ss = r.ss /\ q.alive
  BY SMTT(30), <1>1, <1>3, StartIcePc
<1> QED BY <1>2, <1>4 DEF r, IceTmr

(* The media of p is told to be secure, by DTLS or by "webrtcup": the      *)
(* source is opened only if the ICE gate is open.                          *)
LEMMA MediaPc ==
  ASSUME NEW p \in Pc, NEW un, NEW ea, NEW si, NEW source \in BOOLEAN,
         ClientPcOk(p, un, ea, si), p.alive,
         NEW e, ea => e, ~p.ice_conn => e,
         NEW s, si => s, p.ice_conn /\ ~source => s
  PROVE  LET q == StartMedia(p, source)
         IN  /\ q \in Pc /\ ClientPcOk(q, un, e, s)
             /\ q.offerer = p.offerer /\ q.ss = p.ss /\ q.alive
             /\ q.started = p.started
<1> DEFINE b == p.audio \/ (p.ice_conn /\ source)
           q == [p EXCEPT !.dtls_ok = TRUE, !.audio = b]
<1>1. b \in BOOLEAN
  OBVIOUS
<1>2. Established(p, source) = q /\ StartMedia(p, source) = q
  BY DEF Established, StartMedia, StartAudio, Pc
<1> HIDE DEF b
<1>3. q \in Pc
  BY Zenon, <1>1 DEF Pc
<1>4. /\ q.dtls_ok /\ q.audio = b /\ q.tmr = p.tmr /\ q.gather_ok = p.gather_ok
      /\ q.alive = p.alive /\ q.ss = p.ss /\ q.offerer = p.offerer /\ q.track = p.track
      /\ q.started = p.started /\ q.ice_conn = p.ice_conn /\ q.retry = p.retry
      /\ q.sdp_dec_ok = p.sdp_dec_ok
  BY Zenon DEF Pc
<1> HIDE DEF q
<1>5. ClientPcOk(q, un, e, s)
  BY <1>1, <1>4 DEF ClientPcOk, b, Pc
<1> QED BY <1>2, <1>3, <1>4, <1>5

(* ICE connects: the gate opens, perhaps the media at once, and perhaps    *)
(* the gather handler runs again.                                          *)
LEMMA ConnectedPc ==
  ASSUME NEW p0 \in Pc, NEW un, NEW ea, NEW si,
         ClientPcOk(p0, un, ea, si), p0.alive, p0.started
  PROVE  LET p == MnatConn(p0)
         IN  /\ p \in Pc /\ ClientPcOk(p, un, ea, si) /\ p.ice_conn /\ p.alive /\ p.started
             /\ p.offerer = p0.offerer /\ p.ss = p0.ss
<1> DEFINE p == MnatConn(p0)
<1>1. p \in Pc
  BY Zenon DEF MnatConn, Pc
<1>2. /\ p.ice_conn /\ p.alive /\ p.started /\ p.ss = p0.ss /\ p.offerer = p0.offerer
      /\ p.tmr = p0.tmr /\ p.gather_ok = p0.gather_ok /\ p.audio = p0.audio
      /\ p.dtls_ok = p0.dtls_ok /\ p.sdp_dec_ok = p0.sdp_dec_ok /\ p.retry = p0.retry
  BY Zenon DEF MnatConn, Pc
<1> HIDE DEF p
<1>3. ClientPcOk(p, un, ea, si)
  BY <1>2 DEF ClientPcOk
<1> QED BY <1>1, <1>2, <1>3 DEF p

-----------------------------------------------------------------------------
(* Every step of the room client is a step of the signalling or leaves it  *)
(* alone.                                                                  *)
LEMMA RoomSignalStep == ASSUME [RoomNext]_roomVars PROVE [Next]_vars
<1>1. CASE SignalOnly
  BY <1>1 DEF SignalOnly, Next
<1>2. ASSUME NEW j \in joins, NEW i \in 0..1, NEW f \in Feeds \cup {0}, NEW alloc \in Allocs,
             RoomJoined(j.handle, i, f, alloc)
      PROVE  Next
  BY <1>2 DEF RoomJoined, Next
<1>3. ASSUME NEW alloc \in Allocs, RoomStart(alloc) PROVE Next
  BY <1>3 DEF RoomStart, Next
<1>4. ASSUME NEW i \in 0..1, NEW jsep \in Jseps, RoomConfigured(i, jsep) PROVE Next
  BY <1>4 DEF RoomConfigured, Next
<1>5. ASSUME NEW j \in joins, NEW i \in 0..1, NEW alloc \in Allocs, NEW jsep \in Jseps,
             RoomAttached(j, i, alloc, jsep)
      PROVE  Next
  BY <1>5 DEF RoomAttached, Next
<1>6. ASSUME NEW k \in DOMAIN sess, NEW checks \in BOOLEAN,
             Gathered(k, checks) \/ IceTmrExpires(k, checks) \/ GatherFailed(k) \/ MediaError(k)
      PROVE  UNCHANGED vars
  BY <1>6 DEF Gathered, IceTmrExpires, GatherFailed, MediaError, Close
<1>7. ASSUME NEW k \in DOMAIN sess, NEW keyed \in BOOLEAN, NEW source \in BOOLEAN,
             NEW reinvite \in BOOLEAN, NEW checks \in BOOLEAN,
             IceConnected(k, keyed, source, reinvite, checks)
      PROVE  UNCHANGED vars
  BY <1>7 DEF IceConnected
<1>8. ASSUME NEW k \in DOMAIN sess, NEW source \in BOOLEAN, WebrtcUp(k, source) PROVE Next
  <2>1. "webrtcup" \in Notices
    BY DEF Notices
  <2>2. Notified("webrtcup")
    BY <1>8 DEF WebrtcUp
  <2> QED BY <2>1, <2>2 DEF Next
<1>9. CASE UNCHANGED roomVars
  BY <1>9 DEF roomVars
<1> QED BY Zenon, <1>1, <1>2, <1>3, <1>4, <1>5, <1>6, <1>7, <1>8, <1>9 DEF RoomNext, RoomResting

(* Handles are never taken back, and mPulisherHandleId is set once.        *)
LEMMA PubOnce ==
  ASSUME JanusInv, [Next]_vars
  PROVE  /\ handles \in Nat /\ handles' \in {handles, handles + 1}
         /\ pub' = pub \/ pub = 0
<1>0. handles \in Nat
  BY ZenonT(30), JoinFacts
<1>1. ASSUME NEW r \in req, Reply(r) PROVE handles' \in {handles, handles + 1} /\ pub' = pub
  BY <1>1 DEF Reply, SessionCreated, PublisherAttached, RoomCreated, SubscriberAttached,
              Refused, Unmatched
<1>2. ASSUME NEW j \in joins, NEW i \in 0..1, NEW f \in Feeds \cup {0}, Joined(j.handle, i, f)
      PROVE  handles' = handles /\ pub = 0
  <2> DEFINE k == [handle |-> j.handle, feed |-> 0, for |-> 0]
  <2>1. k \in joins /\ k.feed = 0 /\ handles' = handles
    BY <1>2 DEF Joined
  <2> HIDE DEF k
  <2> QED BY <2>1 DEF JanusInv, ChainOk
<1>3. ASSUME NEW f \in Feeds, NewPublisher(f) \/ Leaving(f) \/ Unpublished(f)
      PROVE  handles' = handles /\ pub' = pub
  BY Zenon, <1>3 DEF NewPublisher, Leaving, Unpublished
<1>4. ASSUME \/ Start \/ ListenerSlowLink \/ Resting \/ UNCHANGED vars
             \/ \E i \in 0..1 : Configured(i)
             \/ \E j \in joins, i \in 0..1 : Attached(j, i)
             \/ \E j \in joins : AttachedUnknown(j)
             \/ \E j \in joins, event \in BOOLEAN : JoinRefused(j, event)
             \/ \E kind \in Notices : Notified(kind)
      PROVE  handles' = handles /\ pub' = pub
  BY ZenonT(30), <1>4 DEF Start, ListenerSlowLink, Resting, vars, Configured, Attached, AttachedUnknown,
              JoinRefused, Notified
<1> QED BY <1>0, <1>1, <1>2, <1>3, <1>4 DEF Next

-----------------------------------------------------------------------------
SessionType(n) == [handle : 0..n, pc : Pc]

(* The session of an offer that was answered.                              *)
AnsweredPc(p) == p.offerer /\ p.ss = Stable /\ p.alive

LEMMA SessionFacts ==
  ASSUME RoomInv
  PROVE  /\ sess \in Seq(SessionType(handles)) /\ Len(sess) \in Nat
         /\ DOMAIN sess = 1..Len(sess) /\ handles \in Nat
         /\ \A k \in DOMAIN sess :
              /\ sess[k] \in SessionType(handles)
              /\ sess[k].pc \in Pc /\ sess[k].handle \in 0..handles
              /\ ClientPcOk(sess[k].pc, k \in unstarted, k \in early, k \in silent)
              /\ AnsweredPc(sess[k].pc) => pub # 0 /\ First(pub, k)
         /\ unstarted \subseteq DOMAIN sess /\ early \subseteq DOMAIN sess
         /\ silent \subseteq DOMAIN sess
         /\ crash \in {"none", "description", "media"}
<1>1. sess \in Seq(SessionType(handles)) /\ handles \in Nat
  BY Zenon DEF RoomInv, RoomTypeOK, TypeOK, SessionType
<1>2. /\ Len(sess) \in Nat /\ DOMAIN sess = 1..Len(sess)
      /\ \A k \in DOMAIN sess : sess[k] \in SessionType(handles)
  BY <1>1, LenProperties, ElementOfSeq
<1>3. \A k \in DOMAIN sess : sess[k].pc \in Pc /\ sess[k].handle \in 0..handles
  BY <1>2 DEF SessionType
<1> QED BY <1>1, <1>2, <1>3 DEF RoomInv, AnsweredFirst, AnsweredPc, RoomTypeOK, NoTimerOnFreed

(* No session is added: the invariant holds again when every connection    *)
(* is in order and none is newly answered but the first of the handle.     *)
LEMMA SessionsKept ==
  ASSUME RoomInv, JanusInv', handles' \in {handles, handles + 1}, pub' = pub \/ pub = 0,
         sess' \in Seq(SessionType(handles)), DOMAIN sess' = DOMAIN sess,
         unstarted' \subseteq DOMAIN sess, early' \subseteq DOMAIN sess,
         silent' \subseteq DOMAIN sess,
         crash' \in {"none", "description", "media"},
         \A k \in DOMAIN sess :
           /\ sess'[k].handle = sess[k].handle
           /\ ClientPcOk(sess'[k].pc, k \in unstarted', k \in early', k \in silent')
           /\ AnsweredPc(sess'[k].pc) => pub # 0 /\ First(pub, k)
  PROVE  RoomInv'
<1>1. sess' \in Seq(SessionType(handles'))
  <2>1. SessionType(handles) \subseteq SessionType(handles')
    BY SessionFacts DEF SessionType
  <2> QED BY <2>1, SeqMonotonic
<1>2. RoomTypeOK'
  BY <1>1 DEF RoomTypeOK, JanusInv, JanusKept, SessionType
<1>3. AnsweredFirst'
  <2> SUFFICES ASSUME NEW k \in DOMAIN sess', AnsweredPc(sess'[k].pc)
               PROVE  pub' # 0 /\ First(pub, k)'
    BY DEF AnsweredFirst, AnsweredPc
  <2>1. pub # 0 /\ pub' = pub /\ First(pub, k)
    OBVIOUS
  <2>2. k \in Nat /\ 1..(k - 1) \subseteq DOMAIN sess
    BY SMTT(30), SessionFacts
  <2> QED BY <2>1, <2>2 DEF First
<1> QED BY Zenon, <1>2, <1>3 DEF RoomInv, NoTimerOnFreed

(* A step that only changes the connection of session k and adds at most k *)
(* to the histories.                                                       *)
LEMMA SessionBecomes ==
  ASSUME RoomInv, JanusInv', handles' \in {handles, handles + 1}, pub' = pub \/ pub = 0,
         NEW k \in DOMAIN sess, NEW p \in Pc, Becomes(k, p),
         ClientPcOk(p, k \in unstarted', k \in early', k \in silent'),
         AnsweredPc(p) => AnsweredPc(sess[k].pc) \/ (pub # 0 /\ First(pub, k)),
         unstarted' \in {unstarted, unstarted \cup {k}},
         early' \in {early, early \cup {k}}, silent' \in {silent, silent \cup {k}},
         crash' \in {"none", "description", "media"}
  PROVE  RoomInv'
<1>1. /\ sess' = [sess EXCEPT ![k] = [sess[k] EXCEPT !.pc = p]]
      /\ [sess[k] EXCEPT !.pc = p] \in SessionType(handles)
      /\ [sess[k] EXCEPT !.pc = p].pc = p
      /\ [sess[k] EXCEPT !.pc = p].handle = sess[k].handle
  BY SessionFacts DEF Becomes, SessionType
<1> DEFINE e == [sess[k] EXCEPT !.pc = p]
<1>2. e \in SessionType(handles) /\ sess' = [sess EXCEPT ![k] = e]
      /\ e.pc = p /\ e.handle = sess[k].handle
  BY <1>1
<1> HIDE DEF e
<1>3. sess' \in Seq(SessionType(handles)) /\ DOMAIN sess' = DOMAIN sess
      /\ \A l \in DOMAIN sess : sess'[l] = IF l = k THEN e ELSE sess[l]
  BY ZenonT(30), <1>2, SessionFacts, ExceptSeq
<1>4. ASSUME NEW l \in DOMAIN sess
      PROVE  /\ sess'[l].handle = sess[l].handle
             /\ ClientPcOk(sess'[l].pc, l \in unstarted', l \in early', l \in silent')
             /\ AnsweredPc(sess'[l].pc) => pub # 0 /\ First(pub, l)
  <2>1. CASE l = k
    BY Zenon, <1>2, <1>3, <2>1, SessionFacts
  <2>2. CASE l # k
    <3>1. /\ sess'[l] = sess[l] /\ (l \in unstarted' <=> l \in unstarted)
          /\ (l \in early' <=> l \in early) /\ (l \in silent' <=> l \in silent)
      BY Zenon, <1>3, <2>2
    <3>2. ClientPcOk(sess[l].pc, l \in unstarted, l \in early, l \in silent)
      BY Zenon, SessionFacts
    <3>3. ClientPcOk(sess[l].pc, l \in unstarted', l \in early', l \in silent')
      BY Zenon, <3>1, <3>2 DEF ClientPcOk
    <3> QED BY Zenon, <3>1, <3>3, SessionFacts
  <2> QED BY Zenon, <2>1, <2>2
<1>5. /\ unstarted' \subseteq DOMAIN sess /\ early' \subseteq DOMAIN sess
      /\ silent' \subseteq DOMAIN sess
  BY Zenon, SessionFacts
<1> QED BY Zenon, <1>3, <1>4, <1>5, SessionsKept

(* A step that changes no session.                                         *)
LEMMA SessionsSame ==
  ASSUME RoomInv, JanusInv', handles' \in {handles, handles + 1}, pub' = pub \/ pub = 0,
         UNCHANGED <<sess, unstarted, early, silent>>,
         crash' \in {"none", "description", "media"}
  PROVE  RoomInv'
  BY ZenonT(30), SessionFacts, SessionsKept

(* A session is added, whose connection is in order and not an answered    *)
(* offerer: the sessions that were there stay the first of their handle.   *)
LEMMA SessionAdded ==
  ASSUME RoomInv, JanusInv', handles' \in {handles, handles + 1}, pub' = pub \/ pub = 0,
         NEW h \in 0..handles', NEW p \in Pc,
         sess' = Append(sess, [handle |-> h, pc |-> p]),
         ClientPcOk(p, FALSE, FALSE, FALSE), ~AnsweredPc(p),
         UNCHANGED <<unstarted, early, silent>>,
         crash' \in {"none", "description", "media"}
  PROVE  RoomInv'
<1> DEFINE e == [handle |-> h, pc |-> p]
           n == Len(sess) + 1
<1>1. e \in SessionType(handles') /\ e.handle = h /\ e.pc = p
  BY DEF SessionType
<1> HIDE DEF e
<1>2. sess \in Seq(SessionType(handles'))
  <2>1. SessionType(handles) \subseteq SessionType(handles')
    BY SMTT(30), SessionFacts DEF SessionType
  <2> QED BY Zenon, <2>1, SessionFacts, SeqMonotonic
<1>3. /\ sess' \in Seq(SessionType(handles')) /\ DOMAIN sess' = 1..n
      /\ \A k \in DOMAIN sess : sess'[k] = sess[k]
      /\ sess'[n] = e
  <2>1. sess' = Append(sess, e)
    BY DEF e
  <2> QED BY SMTT(30), <1>1, <1>2, <2>1, SessionFacts, AppendProperties, LenProperties
<1>4. DOMAIN sess = 1..Len(sess) /\ Len(sess) \in Nat /\ DOMAIN sess \subseteq DOMAIN sess'
  BY SMTT(30), <1>3, SessionFacts
<1>a. ASSUME NEW k \in DOMAIN sess' PROVE k \in DOMAIN sess \/ k = n
  <2>1. DOMAIN sess' = 1..(Len(sess) + 1)
    BY <1>3
  <2> QED BY <1>4, <2>1
<1>5. RoomTypeOK'
  BY Zenon, <1>3, <1>4, SessionFacts DEF RoomTypeOK, JanusInv, JanusKept, SessionType
<1>6. ASSUME NEW k \in DOMAIN sess'
      PROVE  ClientPcOk(sess'[k].pc, k \in unstarted', k \in early', k \in silent')
  <2>1. CASE k \in DOMAIN sess
    BY Zenon, <1>3, <2>1, SessionFacts
  <2>2. CASE k = n
    <3>1. k \notin unstarted' /\ k \notin early' /\ k \notin silent' /\ sess'[k].pc = p
      <4>1. k \notin DOMAIN sess
        BY <1>4, <2>2
      <4> QED BY Zenon, <1>1, <1>3, <2>2, <4>1, SessionFacts
    <3> QED BY Zenon, <3>1 DEF ClientPcOk
  <2> QED BY Zenon, <1>a, <2>1, <2>2
<1>7. AnsweredFirst'
  <2> SUFFICES ASSUME NEW k \in DOMAIN sess', AnsweredPc(sess'[k].pc)
               PROVE  pub' # 0 /\ First(pub, k)'
    BY DEF AnsweredFirst, AnsweredPc
  <2>1. k \in DOMAIN sess
    BY Zenon, <1>1, <1>3, <1>a
  <2>2. pub # 0 /\ First(pub, k) /\ pub' = pub
    BY <1>3, <2>1, SessionFacts
  <2>3. k \in Nat /\ 1..(k - 1) \subseteq DOMAIN sess
    BY <1>4, <2>1
  <2> QED BY Zenon, <1>3, <1>4, <2>1, <2>2, <2>3 DEF First
<1> QED BY Zenon, <1>5, <1>6, <1>7 DEF RoomInv, NoTimerOnFreed

-----------------------------------------------------------------------------
(* publishOwnFeed adds a session that waits for its answer.                *)
LEMMA PublishStep ==
  ASSUME RoomInv, JanusInv', handles' \in {handles, handles + 1}, pub' = pub \/ pub = 0,
         NEW h \in 0..handles', NEW alloc \in Allocs, Publish(h, alloc)
  PROVE  RoomInv'
<1> DEFINE q == CreateOffer(ClientPc(TRUE, alloc))
<1>1. q \in Pc /\ ClientPcOk(q, FALSE, FALSE, FALSE) /\ ~AnsweredPc(q)
  BY Zenon, OfferPc DEF AnsweredPc
<1>2. /\ sess' = Append(sess, [handle |-> h, pc |-> q])
      /\ crash' \in {"none", "description"} /\ UNCHANGED <<unstarted, early, silent>>
  BY DEF Publish, SendDescription
<1> HIDE DEF q
<1> QED BY Zenon, <1>1, <1>2, SessionAdded

(* The server's answer goes to the first session of the publisher.         *)
LEMMA RoomConfiguredStep ==
  ASSUME RoomInv, JanusInv', NEW i \in 0..1, NEW jsep \in Jseps, RoomConfigured(i, jsep)
  PROVE  RoomInv'
<1>1. /\ pub # 0 /\ pub' = pub /\ handles' = handles
      /\ UNCHANGED <<unstarted, early, silent, crash>>
  BY DEF RoomConfigured, Configured
<1> DEFINE q(k) == Described(sess[k].pc, "answer", jsep)
<1>2. /\ DOMAIN sess' = DOMAIN sess
      /\ \A k \in DOMAIN sess : \/ sess'[k] = sess[k]
                                \/ First(pub, k) /\ sess'[k] = [sess[k] EXCEPT !.pc = q(k)]
  BY ZenonT(30) DEF RoomConfigured
<1>3. ASSUME NEW k \in DOMAIN sess
      PROVE  /\ q(k) \in Pc
             /\ ClientPcOk(q(k), k \in unstarted, k \in early, k \in silent)
  BY Zenon, SessionFacts, AnswerDescribed
<1> HIDE DEF q
<1>4. ASSUME NEW k \in DOMAIN sess
      PROVE  /\ sess'[k] \in SessionType(handles) /\ sess'[k].handle = sess[k].handle
             /\ ClientPcOk(sess'[k].pc, k \in unstarted', k \in early', k \in silent')
             /\ AnsweredPc(sess'[k].pc) => pub # 0 /\ First(pub, k)
  <2>1. CASE sess'[k] = sess[k]
    BY Zenon, <1>1, <2>1, SessionFacts
  <2>2. CASE First(pub, k) /\ sess'[k] = [sess[k] EXCEPT !.pc = q(k)]
    <3>1. /\ sess'[k] \in SessionType(handles) /\ sess'[k].handle = sess[k].handle
          /\ sess'[k].pc = q(k)
      BY <1>3, <2>2, SessionFacts DEF SessionType
    <3> QED BY <1>1, <1>3, <2>2, <3>1
  <2> QED BY ZenonT(30), <1>2, <2>1, <2>2
<1>5. sess' \in Seq(SessionType(handles))
  <2>1. sess' = [k \in 1..Len(sess) |-> sess'[k]]
    BY SessionFacts DEF RoomConfigured
  <2> QED BY <1>2, <1>4, <2>1, SessionFacts, FunctionIsSeq
<1> QED BY <1>1, <1>2, <1>4, <1>5, SessionFacts, SessionsKept

(* The server's offer makes a session that answers it.                     *)
LEMMA RoomAttachedStep ==
  ASSUME RoomInv, JanusInv', NEW j \in joins, NEW i \in 0..1, NEW alloc \in Allocs,
         NEW jsep \in Jseps, RoomAttached(j, i, alloc, jsep)
  PROVE  RoomInv'
<1> DEFINE p == Described(ClientPc(FALSE, alloc), "offer", jsep)
           q == CreateAnswer(p)
<1>1. /\ pub' = pub /\ handles' = handles /\ j.handle \in 0..handles
      /\ UNCHANGED <<unstarted, early, silent>>
  <2>1. j.handle \in 1..handles /\ handles \in Nat
    BY Zenon, JoinFacts DEF RoomInv
  <2> QED BY SMTT(30), <2>1 DEF RoomAttached, Attached
<1>2. \/ UNCHANGED <<sess, crash>>
      \/ /\ sess' = Append(sess, [handle |-> j.handle, pc |-> q])
         /\ crash' \in {"none", "description"}
  BY Zenon DEF RoomAttached, SendDescription
<1>3. q \in Pc /\ ClientPcOk(q, FALSE, FALSE, FALSE) /\ ~AnsweredPc(q)
  BY ZenonT(30), AnswerPc DEF AnsweredPc
<1> HIDE DEF q
<1>4. CASE UNCHANGED <<sess, crash>>
  BY Zenon, <1>1, <1>4, SessionFacts, SessionsSame
<1>5. CASE /\ sess' = Append(sess, [handle |-> j.handle, pc |-> q])
           /\ crash' \in {"none", "description"}
  BY Zenon, <1>1, <1>3, <1>5, SessionAdded
<1> QED BY <1>2, <1>4, <1>5

(* The gather callback and the timer.                                      *)
LEMMA IceStep ==
  ASSUME RoomInv, JanusInv', UNCHANGED vars, NEW k \in DOMAIN sess, NEW checks \in BOOLEAN,
         Gathered(k, checks) \/ IceTmrExpires(k, checks)
  PROVE  RoomInv'
<1> DEFINE p == sess[k].pc
           un == k \in unstarted
           u == k \in unstarted'
           ea == k \in early
           si == k \in silent
<1>1. p \in Pc /\ ClientPcOk(p, un, ea, si)
  BY SessionFacts
<1>2. handles' = handles /\ pub' = pub
  BY DEF vars
<1>3. /\ p.alive /\ IceTried(k, p, checks) /\ UNCHANGED <<early, silent, crash>>
      /\ \/ ~p.gather_ok /\ Becomes(k, StartIce(MnatEstab(p), checks))
         \/ p.tmr /\ Becomes(k, IceTmr(p, checks))
  BY DEF Gathered, IceTmrExpires
<1>4. /\ un => u
      /\ p.sdp_dec_ok /\ ~p.started /\ ~checks => u
      /\ unstarted' \in {unstarted, unstarted \cup {k}}
  BY Zenon, <1>3 DEF IceTried
<1>5. ASSUME NEW q \in Pc, Becomes(k, q),
             ClientPcOk(q, u, ea, si),
             q.offerer = p.offerer, q.ss = p.ss
      PROVE  RoomInv'
  <2>1. ClientPcOk(q, k \in unstarted', k \in early', k \in silent')
    BY Zenon, <1>3, <1>5
  <2>2. AnsweredPc(q) => AnsweredPc(sess[k].pc)
    BY Zenon, <1>3, <1>5 DEF AnsweredPc
  <2> QED BY ZenonT(30), <1>2, <1>3, <1>4, <1>5, <2>1, <2>2, SessionFacts, SessionBecomes
<1> HIDE DEF p, un, u, ea, si
<1>6. CASE ~p.gather_ok /\ Becomes(k, StartIce(MnatEstab(p), checks))
  <2> DEFINE q == StartIce(MnatEstab(p), checks)
  <2>1. /\ q \in Pc /\ ClientPcOk(q, u, ea, si)
        /\ q.offerer = p.offerer /\ q.ss = p.ss
    BY <1>1, <1>3, <1>4, <1>6, GatheredPc
  <2> HIDE DEF q
  <2>2. Becomes(k, q)
    BY ZenonT(30), <1>6 DEF q
  <2> QED BY Zenon, <1>5, <2>1, <2>2
<1>7. CASE p.tmr /\ Becomes(k, IceTmr(p, checks))
  <2> DEFINE q == IceTmr(p, checks)
  <2>1. /\ q \in Pc /\ ClientPcOk(q, u, ea, si)
        /\ q.offerer = p.offerer /\ q.ss = p.ss
    BY <1>1, <1>3, <1>4, <1>7, IceTmrPc
  <2> HIDE DEF q
  <2>2. Becomes(k, q)
    BY <1>7 DEF q
  <2> QED BY Zenon, <1>5, <2>1, <2>2
<1> QED BY <1>3, <1>6, <1>7

(* A connection closes: before it has gathered, or after ICE connected, so *)
(* the timer is not armed.                                                 *)
LEMMA CloseStep ==
  ASSUME RoomInv, JanusInv', NEW k \in DOMAIN sess, GatherFailed(k) \/ MediaError(k)
  PROVE  RoomInv'
<1>1. /\ sess[k].pc \in Pc
      /\ ClientPcOk(sess[k].pc, k \in unstarted, k \in early, k \in silent)
  BY ZenonT(30), SessionFacts
<1>2. ~sess[k].pc.tmr
  BY <1>1 DEF GatherFailed, MediaError, ClientPcOk
<1>3. /\ Becomes(k, NoPc) /\ crash' = "none" /\ UNCHANGED <<unstarted, early, silent>>
      /\ handles' = handles /\ pub' = pub
  BY <1>2 DEF GatherFailed, MediaError, Close, vars
<1> DEFINE un == k \in unstarted'
           ea == k \in early'
           si == k \in silent'
<1>4. NoPc \in Pc /\ ~NoPc.alive
      /\ ClientPcOk(NoPc, un, ea, si)
  <2> HIDE DEF un, ea, si
  <2> QED BY NullPc
<1>5. ~AnsweredPc(NoPc)
  BY Zenon, <1>4 DEF AnsweredPc
<1> QED BY Zenon, <1>3, <1>4, <1>5, SessionBecomes

(* ICE connects.                                                           *)
LEMMA IceConnectedStep ==
  ASSUME RoomInv, JanusInv', NEW k \in DOMAIN sess, NEW keyed \in BOOLEAN,
         NEW source \in BOOLEAN, NEW reinvite \in BOOLEAN, NEW checks \in BOOLEAN,
         IceConnected(k, keyed, source, reinvite, checks)
  PROVE  RoomInv'
<1> DEFINE p0 == sess[k].pc
           p == MnatConn(p0)
           q == IF keyed THEN Established(p, source) ELSE p
           un == k \in unstarted
           ea == k \in early
           e == k \in early'
           si == k \in silent
           s == k \in silent'
           t == StartIce(MnatEstab(q), checks)
<1>1. p0 \in Pc /\ ClientPcOk(p0, un, ea, si)
  BY SessionFacts
<1> HIDE DEF p0
<1>2. p.alive = p0.alive /\ p.started = p0.started /\ p.ice_conn
  BY ZenonT(30), <1>1 DEF MnatConn, Pc
<1>3. /\ p0.alive /\ p0.started /\ UNCHANGED <<unstarted, crash>>
      /\ handles' = handles /\ pub' = pub
      /\ IF keyed THEN Sourced(k, p, source) ELSE UNCHANGED <<early, silent>>
  BY ZenonT(30), <1>2 DEF IceConnected, vars, p0
<1>4. Becomes(k, q) \/ Becomes(k, t)
  BY DEF IceConnected, p0
<1>5. /\ early' = early /\ silent' \in {silent, silent \cup {k}}
      /\ ea => e
      /\ si => s
      /\ keyed /\ ~source => s
  BY Zenon, <1>2, <1>3 DEF Sourced
<1> HIDE DEF un, ea, e, si, s
<1>6. /\ p \in Pc /\ ClientPcOk(p, un, ea, si) /\ p.alive /\ p.started
      /\ p.offerer = p0.offerer /\ p.ss = p0.ss
  BY Zenon, <1>1, <1>3, ConnectedPc
<1> HIDE DEF p
<1>7. /\ q \in Pc /\ ClientPcOk(q, un, e, s) /\ q.alive /\ q.started
      /\ q.offerer = p0.offerer /\ q.ss = p0.ss
  <2>1. CASE keyed
    <3> DEFINE m == StartMedia(p, source)
    <3>0. (ea => e) /\ p.ice_conn /\ (si => s) /\ (p.ice_conn /\ ~source => s)
      BY <1>2, <1>5, <2>1
    <3>1. /\ m \in Pc /\ ClientPcOk(m, un, e, s)
          /\ m.offerer = p.offerer /\ m.ss = p.ss /\ m.alive /\ m.started = p.started
      <4>1. p \in Pc /\ ClientPcOk(p, un, ea, si) /\ p.alive
        BY <1>6
      <4> QED BY <3>0, <4>1, MediaPc
    <3>2. q = m
      BY Zenon, <2>1 DEF Established, StartMedia
    <3> HIDE DEF m
    <3> QED BY Zenon, <1>6, <3>1, <3>2
  <2>2. CASE ~keyed
    BY Zenon, <1>5, <1>6, <2>2 DEF ClientPcOk
  <2> QED BY Zenon, <2>1, <2>2
<1> HIDE DEF q
<1>8. /\ t \in Pc /\ ClientPcOk(t, un, e, s) /\ t.alive
      /\ t.offerer = p0.offerer /\ t.ss = p0.ss
  <2>1. LET v == StartIce(MnatEstab(q), checks)
        IN  /\ v \in Pc /\ ClientPcOk(v, un, e, s) /\ v.alive
            /\ v.offerer = q.offerer /\ v.ss = q.ss
    BY Zenon, <1>7, StartedPc
  <2> QED BY Zenon, <1>7, <2>1
<1> HIDE DEF t
<1>9. PICK r \in {q, t} : Becomes(k, r)
  BY Zenon, <1>4
<1>10. /\ r \in Pc /\ ClientPcOk(r, k \in unstarted', k \in early', k \in silent')
       /\ AnsweredPc(r) => AnsweredPc(p0)
  BY Zenon, <1>3, <1>5, <1>7, <1>8 DEF AnsweredPc, un, e, s
<1>11. AnsweredPc(r) => AnsweredPc(sess[k].pc)
  BY ZenonT(30), <1>10 DEF p0
<1>12. crash' \in {"none", "description", "media"} /\ unstarted' = unstarted
  BY Zenon, <1>3, SessionFacts
<1> QED BY Zenon, <1>3, <1>5, <1>9, <1>10, <1>11, <1>12, SessionBecomes

(* "webrtcup" starts the media of the publisher's first session.           *)
LEMMA WebrtcUpStep ==
  ASSUME RoomInv, JanusInv', NEW k \in DOMAIN sess, NEW source \in BOOLEAN,
         WebrtcUp(k, source)
  PROVE  RoomInv'
<1> DEFINE p == sess[k].pc
           q == StartMedia(p, source)
           un == k \in unstarted
           ea == k \in early
           si == k \in silent
           e == k \in early'
           s == k \in silent'
<1>1. p \in Pc /\ ClientPcOk(p, un, ea, si)
  BY Zenon, SessionFacts
<1>2. handles' = handles /\ pub' = pub /\ unstarted' = unstarted
  BY ZenonT(30) DEF WebrtcUp, Notified
<1> HIDE DEF p
<1>3. CASE p.alive
  <2>1. Becomes(k, q) /\ Sourced(k, p, source) /\ crash' = crash
    BY Zenon, <1>3 DEF WebrtcUp, p
  <2>2. /\ early' \in {early, early \cup {k}} /\ silent' \in {silent, silent \cup {k}}
        /\ (ea => e) /\ (~p.ice_conn => e)
        /\ (si => s) /\ (p.ice_conn /\ ~source => s)
    BY Zenon, <2>1 DEF Sourced
  <2>3. /\ q \in Pc /\ ClientPcOk(q, un, e, s)
        /\ q.offerer = p.offerer /\ q.ss = p.ss
    <3> HIDE DEF un, ea, si, e, s
    <3> QED BY SMTT(30), <1>1, <1>3, <2>2, MediaPc
  <2> HIDE DEF q
  <2>4. AnsweredPc(q) => AnsweredPc(p)
    BY <1>3, <2>3 DEF AnsweredPc
  <2> QED BY ZenonT(30), <1>2, <2>1, <2>2, <2>3, <2>4, SessionFacts, SessionBecomes DEF p
<1>4. CASE ~p.alive
  <2>1. crash' = "media" /\ UNCHANGED <<sess, early, silent>>
    BY <1>4 DEF WebrtcUp, p
  <2> QED BY Zenon, <1>2, <2>1, SessionsSame
<1> QED BY Zenon, <1>3, <1>4

-----------------------------------------------------------------------------
LEMMA RoomInitInv == RoomInit => RoomInv
<1> SUFFICES ASSUME RoomInit PROVE RoomInv
  OBVIOUS
<1>1. JanusInv
  BY JanusInit DEF RoomInit
<1>2. /\ sess = <<>> /\ unstarted = {} /\ early = {} /\ silent = {} /\ crash = "none"
  BY DEF RoomInit
<1>3. DOMAIN sess = {}
  BY <1>2
<1>4. sess \in Seq(SessionType(handles))
  BY <1>2, EmptySeq
<1>5. RoomTypeOK
  BY Zenon, <1>1, <1>2, <1>4 DEF RoomTypeOK, JanusInv, JanusKept, SessionType
<1> QED BY <1>1, <1>2, <1>3, <1>5 DEF RoomInv, AnsweredFirst, NoTimerOnFreed

LEMMA RoomStep ==
  ASSUME RoomInv, [RoomNext]_roomVars
  PROVE  RoomInv'
<1>1. JanusInv /\ [Next]_vars
  BY RoomSignalStep DEF RoomInv
<1>2. JanusInv'
  BY <1>1, JanusStep
<1>3. /\ handles \in Nat /\ handles' \in {handles, handles + 1}
      /\ pub' = pub \/ pub = 0
  BY Zenon, <1>1, PubOnce
<1>4. ASSUME SignalOnly \/ UNCHANGED roomVars PROVE RoomInv'
  <2>1. UNCHANGED <<sess, unstarted, early, silent, crash>>
    BY <1>4 DEF SignalOnly, roomVars, sessionVars
  <2> QED BY Zenon, <1>2, <1>3, <2>1, SessionFacts, SessionsSame
<1>5. ASSUME NEW j \in joins, NEW i \in 0..1, NEW f \in Feeds \cup {0}, NEW alloc \in Allocs,
             RoomJoined(j.handle, i, f, alloc)
      PROVE  RoomInv'
  <2>1. CASE AutoPublish
    <3>1. Publish(j.handle, alloc)
      BY <1>5, <2>1 DEF RoomJoined
    <3>2. j.handle \in 0..handles'
      <4>1. j.handle \in 1..handles
        BY Zenon, <1>1, JoinFacts
      <4> QED BY <1>3, <4>1
    <3> QED BY Zenon, <1>2, <1>3, <3>1, <3>2, PublishStep
  <2>2. CASE ~AutoPublish
    <3>1. UNCHANGED <<sess, unstarted, early, silent, crash>>
      BY <1>5, <2>2 DEF RoomJoined, sessionVars
    <3> QED BY Zenon, <1>2, <1>3, <3>1, SessionFacts, SessionsSame
  <2> QED BY <2>1, <2>2
<1>6. ASSUME NEW alloc \in Allocs, RoomStart(alloc) PROVE RoomInv'
  <2>1. Publish(pub, alloc)
    BY <1>6 DEF RoomStart
  <2>2. pub \in 0..handles'
    <3>1. pub \in 0..handles
      BY Zenon DEF RoomInv, RoomTypeOK, TypeOK
    <3> QED BY SMTT(30), <1>3, <3>1
  <2> QED BY <1>2, <1>3, <2>1, <2>2, PublishStep
<1>7. ASSUME NEW i \in 0..1, NEW jsep \in Jseps, RoomConfigured(i, jsep) PROVE RoomInv'
  BY <1>2, <1>7, RoomConfiguredStep
<1>8. ASSUME NEW j \in joins, NEW i \in 0..1, NEW alloc \in Allocs, NEW jsep \in Jseps,
             RoomAttached(j, i, alloc, jsep)
      PROVE  RoomInv'
  BY <1>2, <1>8, RoomAttachedStep
<1>9. ASSUME NEW k \in DOMAIN sess, NEW checks \in BOOLEAN,
             Gathered(k, checks) \/ IceTmrExpires(k, checks)
      PROVE  RoomInv'
  <2>1. UNCHANGED vars
    BY <1>9 DEF Gathered, IceTmrExpires
  <2> QED BY Zenon, <1>2, <1>9, <2>1, IceStep
<1>10. ASSUME NEW k \in DOMAIN sess, GatherFailed(k) \/ MediaError(k) PROVE RoomInv'
  BY <1>2, <1>10, CloseStep
<1>11. ASSUME NEW k \in DOMAIN sess, NEW keyed \in BOOLEAN, NEW source \in BOOLEAN,
              NEW reinvite \in BOOLEAN, NEW checks \in BOOLEAN,
              IceConnected(k, keyed, source, reinvite, checks)
       PROVE  RoomInv'
  BY <1>2, <1>11, IceConnectedStep
<1>12. ASSUME NEW k \in DOMAIN sess, NEW source \in BOOLEAN, WebrtcUp(k, source)
       PROVE  RoomInv'
  BY <1>2, <1>12, WebrtcUpStep
<1> QED BY Zenon, <1>4, <1>5, <1>6, <1>7, <1>8, <1>9, <1>10, <1>11, <1>12 DEF RoomNext, RoomResting

(* The inductive invariant of the room client (RTCConnection.c with        *)
(* baidu_rtc_client_session.c and peerconn.c).                             *)
THEOREM RoomInvariant == RoomSpec => []RoomInv
<1>1. RoomInv /\ [RoomNext]_roomVars => RoomInv'
  BY RoomStep
<1> QED BY RoomInitInv, <1>1, PTL DEF RoomSpec

(* The room client's signalling is that of Janus: whatever its sessions    *)
(* and peer connections do, it sends and takes only what module Janus      *)
(* allows.                                                                 *)
THEOREM RoomSignals == RoomSpec => Spec
<1>1. RoomInit => Init
  BY DEF RoomInit
<1>2. [RoomNext]_roomVars => [Next]_vars
  BY RoomSignalStep
<1> QED BY <1>1, <1>2, PTL DEF RoomSpec, Spec

(* ICE is owed to every connection that has gathered, no connection is     *)
(* freed with ice_tmr armed, and audio runs only through both gates        *)
(* (peerconnection_start_ice, peerconnection_close_handler, start_audio).  *)
THEOREM ConnectionsKept == RoomSpec => []RoomKept
<1>1. RoomInv => RoomKept
  <2> SUFFICES ASSUME RoomInv PROVE IceOwed /\ AudioGated
    BY Zenon DEF RoomInv, RoomKept
  <2>1. \A k \in DOMAIN sess : sess[k].pc.alive /\ sess[k].pc.gather_ok =>
          \/ sess[k].pc.started \/ sess[k].pc.tmr
          \/ sess[k].pc.retry = MaxIceRetries \/ k \in unstarted
    BY Zenon, SessionFacts DEF ClientPcOk
  <2>2. \A k \in DOMAIN sess : sess[k].pc.audio =>
          /\ sess[k].pc.ice_conn /\ sess[k].pc.dtls_ok
          /\ sess[k].pc.started /\ sess[k].pc.sdp_dec_ok
    BY ZenonT(30), SessionFacts DEF ClientPcOk
  <2> QED BY <2>1, <2>2 DEF IceOwed, AudioGated
<1> QED BY <1>1, RoomInvariant, PTL

(* Answers meet their offers: of the connections that offered only the     *)
(* first for the publisher's handle is answered (onPublisherRemoteJsep),   *)
(* and none stays with an unanswered remote offer (onOffer).               *)
THEOREM AnswersMeetOffers == RoomSpec => []NegotiationClosed
<1>1. RoomInv => NegotiationClosed
  <2> SUFFICES ASSUME RoomInv PROVE NegotiationClosed
    BY Zenon
  <2>1. \A k \in DOMAIN sess : sess[k].pc.ss # HaveRemoteOffer
    BY Zenon, SessionFacts DEF ClientPcOk
  <2> QED BY <2>1, SessionFacts DEF NegotiationClosed, AnsweredPc
<1> QED BY <1>1, RoomInvariant, PTL

(* A connection with both gates open and no audio had its source fail, or  *)
(* was told "webrtcup" before ICE connected (peerconnection_start_media).  *)
THEOREM SilenceHasReason == RoomSpec => []SilenceExplained
<1>1. RoomInv => SilenceExplained
  <2> SUFFICES ASSUME RoomInv, NEW k \in DOMAIN sess, sess[k].pc.dtls_ok, ~sess[k].pc.audio
               PROVE  k \in early \cup silent
    BY ZenonT(30) DEF SilenceExplained
  <2>1. ClientPcOk(sess[k].pc, k \in unstarted, k \in early, k \in silent)
    BY Zenon, SessionFacts
  <2> QED BY <2>1 DEF ClientPcOk
<1> QED BY <1>1, RoomInvariant, PTL
=============================================================================
