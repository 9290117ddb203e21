------------------------------- MODULE Janus -------------------------------
(***************************************************************************)
(* The signalling of a room client: RTCConnection.c as a client of a Janus *)
(* video room, from the moment its WebSocket is open.  createSession,      *)
(* publisherCreateHandle, createRoom and subscriberCreateHandle are        *)
(* transactions: each stores its id in a fixed slot of                     *)
(* mJanusTransactionMap, and the success reply runs the callback that      *)
(* sends the next request.  Joins, offers and answers are plain messages   *)
(* whose results come as events for a handle.                              *)
(*                                                                         *)
(* The server is the environment: it may answer outstanding requests in    *)
(* any order, refuse them, or announce and withdraw feeds at any time.  A  *)
(* message is delivered and handled in one step (onRTCMessage).            *)
(***************************************************************************)
EXTENDS Naturals, FiniteSets

CONSTANTS Feeds,         \* ids of remote publishers, not 0
          WebListeners,  \* the feeds whose display name is "web_listener"
          AutoPublish,   \* mAutoPublish
          MaxTrans,      \* bound: transactions started
          MaxOffers      \* bound: offers sent

ASSUME FeedAssumption == Feeds \subseteq Nat \ {0} /\ WebListeners \subseteq Feeds
ASSUME BoundAssumption == /\ AutoPublish \in BOOLEAN
                          /\ MaxTrans \in Nat \ {0} /\ MaxOffers \in Nat

VARIABLES
  trans,     \* number of transactions started; their ids are 1..trans
  slot,      \* mJanusTransactionMap[i].jtId, 0 is the empty string
  req,       \* transactions the server has not answered
  handles,   \* number of handles the server has given out
  hmap,      \* mJanusHandlesMap: id, whether jh is allocated, and its feed
  joins,     \* join requests the server has not answered
  offers,    \* offers sent
  answered,  \* offers the server has answered
  feed,      \* mFeedId
  web,       \* mPublisherWebListenerMap[0].feedId
  pub,       \* mPulisherHandleId
  lis,       \* mListernerHandleId
  told,      \* what the last message made known to the message listener
  lost,      \* history: handles whose offer from the server was ignored
  refused,   \* history: the server refused a request
  fault      \* why a handler ran on freed memory or through a NULL pointer

vars == <<trans, slot, req, handles, hmap, joins, offers, answered, feed, web,
          pub, lis, told, lost, refused, fault>>

Slots == 0..3

(* The slot each kind of transaction uses.                                 *)
SlotOf(kind) == CASE kind = "create" -> 0 [] kind = "attach" -> 1
                  [] kind = "room" -> 2   [] kind = "subscribe" -> 3

(* handle and for are the server's own knowledge: the handle a room is     *)
(* created through, and the feed a subscriber handle is asked for.         *)
Request(kind, handle, for) ==
  [id |-> trans + 1, kind |-> kind, handle |-> handle, for |-> for]

Quiet == told' = <<"none", 0>>

Init ==
  /\ trans = 1
  /\ slot = [i \in Slots |-> IF i = 0 THEN 1 ELSE 0]
  /\ req = {[id |-> 1, kind |-> "create", handle |-> 0, for |-> 0]}
  /\ handles = 0
  /\ hmap = [i \in 0..1 |-> [id |-> 0, jh |-> "none", feed |-> 0]]
  /\ joins = {}
  /\ offers = 0 /\ answered = 0 /\ feed = 0 /\ web = 0 /\ pub = 0 /\ lis = 0
  /\ told = <<"login ok", 0>>
  /\ lost = {} /\ refused = FALSE /\ fault = "none"

Running == fault = "none"

(***************************************************************************)
(* "success" and "error" replies.  The first slot that holds the id is     *)
(* looked up, its callback runs, and only then the slot is cleared.        *)
(***************************************************************************)
Holds(i, id) == slot[i] = id /\ \A j \in Slots : j < i => slot[j] # id

(* Faulty variant: the callback's own transaction goes to the slot that is *)
(* about to be cleared.                                                    *)
StartAndClear_SameSlot(i, kind, handle, for) ==
  /\ trans' = trans + 1
  /\ slot' = [slot EXCEPT ![i] = 0]
  /\ req' = {r \in req : r.id # slot[i]} \cup {Request(kind, handle, for)}

(* A callback that starts a transaction, and the clearing of slot i.       *)
StartAndClear(i, kind, handle, for) ==
  /\ trans' = trans + 1
  /\ slot' = [slot EXCEPT ![SlotOf(kind)] = trans + 1, ![i] = 0]
  /\ req' = {r \in req : r.id # slot[i]} \cup {Request(kind, handle, for)}

ClearOnly(i) ==
  /\ slot' = [slot EXCEPT ![i] = 0]
  /\ req' = {r \in req : r.id # slot[i]}
  /\ UNCHANGED trans

(* createSession_callback, then publisherCreateHandle.                     *)
SessionCreated(r, i) ==
  /\ Running /\ r \in req /\ r.kind = "create" /\ Holds(i, r.id)
  /\ trans < MaxTrans
  /\ StartAndClear(i, "attach", 0, 0)
  /\ Quiet
  /\ UNCHANGED <<handles, hmap, joins, offers, answered, feed, web, pub, lis,
                 lost, refused, fault>>

(* publisherCreateHandle_callback, then createRoom.                        *)
PublisherAttached(r, i) ==
  /\ Running /\ r \in req /\ r.kind = "attach" /\ Holds(i, r.id)
  /\ trans < MaxTrans
  /\ handles' = handles + 1
  /\ StartAndClear(i, "room", handles + 1, 0)
  /\ Quiet
  /\ UNCHANGED <<hmap, joins, offers, answered, feed, web, pub, lis, lost,
                 refused, fault>>

(* createRoom_callback, then publisherJoinRoom (mAsPublisher is set).      *)
RoomCreated(r, i) ==
  /\ Running /\ r \in req /\ r.kind = "room" /\ Holds(i, r.id)
  /\ ClearOnly(i)
  /\ hmap' = [hmap EXCEPT ![0] = [id |-> r.handle, jh |-> "live", feed |-> feed]]
  /\ joins' = joins \cup {[handle |-> r.handle, feed |-> 0, for |-> 0]}
  /\ Quiet
  /\ UNCHANGED <<handles, offers, answered, feed, web, pub, lis, lost, refused, fault>>

(* Faulty variant: the publisher's RtcJanusHandle is used for the          *)
(* subscriber too.                                                         *)
SubscriberAttached_SharedJh(r, i) ==
  /\ Running /\ r \in req /\ r.kind = "subscribe" /\ Holds(i, r.id)
  /\ ClearOnly(i)
  /\ handles' = handles + 1
  /\ hmap' = [hmap EXCEPT ![1] = [id |-> handles + 1, jh |-> hmap[0].jh, feed |-> feed]]
  /\ joins' = joins \cup {[handle |-> handles + 1, feed |-> feed, for |-> r.for]}
  /\ Quiet
  /\ UNCHANGED <<offers, answered, feed, web, pub, lis, lost, refused, fault>>

(* subscriberCreateHandle_callback, then subscriberJoinRoom for mFeedId.   *)
SubscriberAttached(r, i) ==
  /\ Running /\ r \in req /\ r.kind = "subscribe" /\ Holds(i, r.id)
  /\ ClearOnly(i)
  /\ handles' = handles + 1
  /\ hmap' = [hmap EXCEPT ![1] = [id |-> handles + 1, jh |-> "live", feed |-> feed]]
  /\ joins' = joins \cup {[handle |-> handles + 1, feed |-> feed, for |-> r.for]}
  /\ Quiet
  /\ UNCHANGED <<offers, answered, feed, web, pub, lis, lost, refused, fault>>

(* A reply that no slot waits for is ignored; its handle stays unused.     *)
Unmatched(r) ==
  /\ Running /\ r \in req /\ \A i \in Slots : slot[i] # r.id
  /\ req' = req \ {r}
  /\ handles' = IF r.kind \in {"attach", "subscribe"} THEN handles + 1 ELSE handles
  /\ Quiet
  /\ UNCHANGED <<trans, slot, hmap, joins, offers, answered, feed, web, pub,
                 lis, lost, refused, fault>>

(* RtcJanusTransaction_onError does nothing, and nothing is retried.       *)
Refused(r, i) ==
  /\ Running /\ r \in req /\ Holds(i, r.id)
  /\ ClearOnly(i)
  /\ refused' = TRUE
  /\ Quiet
  /\ UNCHANGED <<handles, hmap, joins, offers, answered, feed, web, pub, lis,
                 lost, fault>>

(***************************************************************************)
(* Events.  onEvent looks up the sender in mJanusHandlesMap; onRemoteJsep  *)
(* is called at most once for an entry, because jh is freed after it while *)
(* the entry keeps pointing to it.                                         *)
(***************************************************************************)
Entry(i, h) == hmap[i].id = h /\ \A j \in 0..1 : j < i => hmap[j].id # h

Known(h) == \E i \in 0..1 : hmap[i].id = h

(* Faulty variants: mFeedId is overwritten by every announced feed, and    *)
(* every feed is remembered as a web listener.                             *)
FeedComing_Latest(f) ==
  /\ told' = <<"feed coming", f>>
  /\ web' = IF f \in WebListeners THEN f ELSE web
  /\ feed' = f
  /\ IF feed \in {0, f}
     THEN /\ trans' = trans + 1
          /\ slot' = [slot EXCEPT ![3] = trans + 1]
          /\ req' = req \cup {Request("subscribe", 0, f)}
     ELSE UNCHANGED <<trans, slot, req>>

(* The first publisher f of the list.  The first feed ever announced is    *)
(* subscribed to, and that feed again whenever it is announced again.      *)
FeedComing(f) ==
  /\ told' = <<"feed coming", f>>
  /\ web' = IF f \in WebListeners THEN f ELSE web
  /\ IF feed \in {0, f}
     THEN /\ trans' = trans + 1 /\ feed' = f
          /\ slot' = [slot EXCEPT ![3] = trans + 1]
          /\ req' = req \cup {Request("subscribe", 0, f)}
     ELSE UNCHANGED <<trans, feed, slot, req>>

(* "joined" for handle h: onPublisherJoined, and publishOwnFeed if         *)
(* mAutoPublish is set; then the publishers who are already in the room.   *)
Joined(h, i, f) ==
  /\ Running /\ trans < MaxTrans /\ (AutoPublish => offers < MaxOffers)
  /\ [handle |-> h, feed |-> 0, for |-> 0] \in joins /\ Entry(i, h)
  /\ joins' = joins \ {[handle |-> h, feed |-> 0, for |-> 0]}
  /\ fault' = (IF hmap[i].jh = "live" THEN "none" ELSE "handle")
  /\ pub' = h
  /\ offers' = IF AutoPublish THEN offers + 1 ELSE offers
  /\ IF f = 0 THEN Quiet /\ UNCHANGED <<web, trans, feed, slot, req>> ELSE FeedComing(f)
  /\ UNCHANGED <<handles, hmap, answered, lis, lost, refused>>

NewPublisher(f) ==
  /\ Running /\ trans < MaxTrans /\ pub # 0
  /\ FeedComing(f)
  /\ UNCHANGED <<handles, hmap, joins, offers, answered, pub, lis, lost,
                 refused, fault>>

(* GET /start: publishOwnFeed once more, on mPulisherHandleId.  Before the *)
(* room is joined that is 0; the server's error matches no slot.           *)
Start ==
  /\ Running /\ offers < MaxOffers
  /\ offers' = offers + 1
  /\ answered' = IF pub = 0 THEN answered + 1 ELSE answered
  /\ Quiet
  /\ UNCHANGED <<trans, slot, req, handles, hmap, joins, feed, web, pub, lis,
                 lost, refused, fault>>

(* "configured" with an answer to an offer, for the publisher's handle.    *)
Configured(i) ==
  /\ Running /\ pub # 0 /\ answered < offers /\ Entry(i, pub)
  /\ answered' = answered + 1
  /\ IF hmap[i].jh = "live"
     THEN hmap' = [hmap EXCEPT ![i].jh = "freed"] /\ UNCHANGED fault
     ELSE fault' = "handle" /\ UNCHANGED hmap
  /\ Quiet
  /\ UNCHANGED <<trans, slot, req, handles, joins, offers, feed, web, pub, lis,
                 lost, refused>>

(* "attached" with the server's offer, for a subscriber handle.            *)
Attached(j, i) ==
  /\ Running /\ j \in joins /\ j.feed # 0 /\ Entry(i, j.handle)
  /\ joins' = joins \ {j}
  /\ IF hmap[i].jh = "live"
     THEN hmap' = [hmap EXCEPT ![i].jh = "freed"] /\ lis' = j.handle /\ UNCHANGED fault
     ELSE fault' = "handle" /\ UNCHANGED <<hmap, lis>>
  /\ Quiet
  /\ UNCHANGED <<trans, slot, req, handles, offers, answered, feed, web, pub,
                 lost, refused>>

(* The same for a handle that the map does not hold any more.              *)
AttachedUnknown(j) ==
  /\ Running /\ j \in joins /\ j.feed # 0 /\ ~Known(j.handle)
  /\ joins' = joins \ {j}
  /\ lost' = lost \cup {j.handle}
  /\ Quiet
  /\ UNCHANGED <<trans, slot, req, handles, hmap, offers, answered, feed, web,
                 pub, lis, refused, fault>>

(* "leaving" of a feed: a web listener is forgotten silently.              *)
Leaving(f) ==
  /\ Running /\ pub # 0
  /\ IF web = f THEN web' = 0 /\ Quiet
     ELSE told' = <<"leaving", f>> /\ UNCHANGED web
  /\ UNCHANGED <<trans, slot, req, handles, hmap, joins, offers, answered, feed,
                 pub, lis, lost, refused, fault>>

(* "unpublished" of a feed: only the subscribed one is reported.           *)
Unpublished(f) ==
  /\ Running /\ pub # 0 /\ f = feed
  /\ told' = <<"leaving", f>>
  /\ UNCHANGED <<trans, slot, req, handles, hmap, joins, offers, answered, feed,
                 web, pub, lis, lost, refused, fault>>

(* A refused join: the listener is told of an event with an error code,    *)
(* while an "error" reply matches no slot and is ignored.                  *)
JoinRefused(j, event) ==
  /\ Running /\ j \in joins
  /\ joins' = joins \ {j}
  /\ refused' = TRUE
  /\ told' = <<IF event THEN "server error" ELSE "none", 0>>
  /\ UNCHANGED <<trans, slot, req, handles, hmap, offers, answered, feed, web,
                 pub, lis, lost, fault>>

(* Messages that are passed on to the listener and change nothing else:    *)
(* "webrtcup", "media", "hangup", "slowlink" and "sessionevent".           *)
Notices == {"webrtcup", "media", "hangup", "slowlink", "user"}

Notified(kind) ==
  /\ Running /\ pub # 0
  /\ told' = <<kind, 0>>
  /\ UNCHANGED <<trans, slot, req, handles, hmap, joins, offers, answered, feed,
                 web, pub, lis, lost, refused, fault>>

(* "listener_slow_link": init() installs no onListenerNACKs.               *)
ListenerSlowLink ==
  /\ Running /\ pub # 0
  /\ fault' = "nacks"
  /\ Quiet
  /\ UNCHANGED <<trans, slot, req, handles, hmap, joins, offers, answered, feed,
                 web, pub, lis, lost, refused>>

(* The connection may stay as it is for ever.                              *)
Resting == UNCHANGED vars

Reply(r) ==
  \/ \E i \in Slots : \/ SessionCreated(r, i) \/ PublisherAttached(r, i)
                      \/ RoomCreated(r, i) \/ SubscriberAttached(r, i)
                      \/ Refused(r, i)
  \/ Unmatched(r)

Next ==
  \/ \E r \in req : Reply(r)
  \/ \E j \in joins, i \in 0..1, f \in Feeds \cup {0} : Joined(j.handle, i, f)
  \/ \E f \in Feeds : NewPublisher(f) \/ Leaving(f) \/ Unpublished(f)
  \/ Start
  \/ \E i \in 0..1 : Configured(i)
  \/ \E j \in joins, i \in 0..1 : Attached(j, i)
  \/ \E j \in joins : AttachedUnknown(j)
  \/ \E j \in joins, event \in BOOLEAN : JoinRefused(j, event)
  \/ \E kind \in Notices : Notified(kind)
  \/ ListenerSlowLink
  \/ Resting

Spec == Init /\ [][Next]_vars

(* A server that answers: every transaction and every join gets a reply.   *)
Fairness ==
  /\ WF_vars(\E r \in req : Reply(r))
  /\ WF_vars(\E j \in joins : \/ \E event \in BOOLEAN : JoinRefused(j, event)
                              \/ \E i \in 0..1, f \in Feeds \cup {0} : Joined(j.handle, i, f))

FairSpec == Spec /\ Fairness
-----------------------------------------------------------------------------
Requests == [id : 1..MaxTrans, kind : {"create", "attach", "room", "subscribe"},
             handle : Nat, for : Feeds \cup {0}]

Entries == [id : Nat, jh : {"none", "live", "freed"}, feed : Feeds \cup {0}]

TypeOK ==
  /\ trans \in 1..MaxTrans
  /\ slot \in [Slots -> 0..MaxTrans]
  /\ req \subseteq Requests
  /\ handles \in Nat /\ pub \in 0..handles /\ lis \in 0..handles
  /\ hmap \in [0..1 -> Entries]
  /\ joins \subseteq [handle : 1..handles, feed : Feeds \cup {0}, for : Feeds \cup {0}]
  /\ offers \in 0..MaxOffers /\ answered \in 0..offers
  /\ feed \in Feeds \cup {0} /\ web \in WebListeners \cup {0}
  /\ told \in ({"none", "login ok", "feed coming", "leaving", "server error"} \cup Notices)
              \X (Feeds \cup {0})
  /\ lost \subseteq 1..handles /\ refused \in BOOLEAN
  /\ fault \in {"none", "handle", "nacks"}

(***************************************************************************)
(* No reply is lost: every transaction the server still has to answer is   *)
(* in its slot, although onRTCMessage clears the slot of a reply after the *)
(* callback has started the next transaction.  Only a subscription that    *)
(* was started again before its first reply is overwritten, by the newer   *)
(* one.                                                                    *)
(***************************************************************************)
RepliesAwaited ==
  \A r \in req : \/ slot[SlotOf(r.kind)] = r.id
                 \/ r.kind = "subscribe" /\ slot[3] > r.id
                 \/ r.kind = "subscribe" /\ slot[3] = 0 /\ trans > r.id

(***************************************************************************)
(* A subscriber handle joins the feed it was created for, although the     *)
(* feed is read from mFeedId when the reply arrives and other feeds may be *)
(* announced in between.                                                   *)
(***************************************************************************)
JoinsItsFeed == \A j \in joins : j.feed = j.for

(***************************************************************************)
(* The server's offer for the newest subscriber handle is never ignored:   *)
(* only a handle that a newer subscription has replaced in the map loses   *)
(* its offer.                                                              *)
(***************************************************************************)
NewestOfferTaken == \A h \in lost : h < hmap[1].id

(***************************************************************************)
(* onEvent touches a freed handle only after the application published     *)
(* more than once (GET /start on top of the automatic offer, or twice):    *)
(* the server's events for the first offer never do.                       *)
(***************************************************************************)
HandleFreedOnce == fault = "handle" => offers > 1

(***************************************************************************)
(* What the client keeps of the conversation, however replies, events and  *)
(* the user's requests cross: replies find their slot, subscriptions their *)
(* feed, offers their handle.                                              *)
(***************************************************************************)
JanusKept == TypeOK /\ RepliesAwaited /\ JoinsItsFeed /\ NewestOfferTaken /\ HandleFreedOnce

(***************************************************************************)
(* The handshake does not get stuck by itself: with a server that answers, *)
(* the client is told a refusal or joins the room, because each callback   *)
(* sends the next request.                                                 *)
(***************************************************************************)
HandshakeEnds == <>(pub # 0 \/ refused \/ fault # "none")
-----------------------------------------------------------------------------
(***************************************************************************)
(* The inductive invariant.  Requests and slots: ids are unique, and a     *)
(* reply is looked up in the slot of its own kind.                         *)
(***************************************************************************)
SlotsOk ==
  /\ \A i \in Slots : slot[i] <= trans
  /\ \A r \in req : r.id <= trans /\ \A i \in Slots : slot[i] = r.id => i = SlotOf(r.kind)
  /\ \A r, q \in req : r.id = q.id => r = q

(* The handshake is a chain: while one of its requests, or the join of the *)
(* publisher that follows, is outstanding, nothing else is, and there is   *)
(* no feed yet.                                                            *)
ChainOk ==
  /\ \A r \in req :
       IF r.kind = "subscribe" THEN r.for = feed /\ feed # 0
       ELSE /\ req = {r} /\ joins = {} /\ pub = 0
            /\ hmap[0].id = 0 /\ hmap[0].jh = "none"
            /\ r.kind = "room" => r.handle \in 1..handles
  /\ \A j \in joins :
       j.feed = 0 => /\ joins = {j} /\ req = {} /\ pub = 0
                     /\ hmap[0].id = j.handle /\ hmap[0].jh = "live"
  /\ pub = 0 => feed = 0

(* Handles are given out in order: the publisher's is the first in the map,*)
(* the subscribers' are younger, and the map holds the youngest, whose     *)
(* RtcJanusHandle lives until the server's offer has come.                 *)
HandlesOk ==
  /\ \A i \in 0..1 : hmap[i].id <= handles
  /\ pub # 0 => hmap[0].id = pub /\ hmap[0].jh # "none"
  /\ hmap[0].jh = "freed" => answered > 0
  /\ \A j \in joins :
       j.feed # 0 => /\ hmap[0].id < j.handle /\ j.handle <= hmap[1].id
                     /\ j.handle = hmap[1].id => hmap[1].jh = "live"
  /\ \A j, k \in joins : j.handle = k.handle => j = k

(* What RTCConnection.c keeps, with the slots, the order of the handshake  *)
(* and the handles that make every reply and event keep it.                *)
JanusInv == JanusKept /\ SlotsOk /\ ChainOk /\ HandlesOk
=============================================================================
