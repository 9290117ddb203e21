---------------------------- MODULE WebSockProofs ----------------------------
(***************************************************************************)
(* The two ends of a WebSocket, proved for any length of the wire, with    *)
(* keepalive and without, with peers that break the protocol and hosts     *)
(* that vanish, and with owners that send, close or let go at any time.    *)
(***************************************************************************)
EXTENDS WebSock, TLAPS

Sent == Frames \ {"101"}

NoClose(w) == \A i \in 1..Len(w) : w[i] # "close"
OnlyFin(w) == \A i \in 1..Len(w) : w[i] = "fin"

(* What a handler has computed of a connection that was able to send (b)   *)
(* or was not, while it may not have finished with the close frame.        *)
Partial(s, b) ==
  /\ s.c \in Conn /\ ConnOk(s.c)
  /\ s.out \in Seq(Sent) /\ CloseLast(s.out)
  /\ ~b => OnlyFin(s.out) /\ s.c.st \notin Early

Result(s, b) == Partial(s, b) /\ (s.c.st \in Early => NoClose(s.out))

-----------------------------------------------------------------------------
(* Sequences of frames.                                                    *)

LEMMA Appended ==
  ASSUME NEW w \in Seq(Sent), NEW f \in Sent, CloseLast(w), NoClose(w) \/ f = "fin"
  PROVE  /\ Append(w, f) \in Seq(Sent) /\ CloseLast(Append(w, f))
         /\ Append(w, f) # w
         /\ NoClose(w) /\ f # "close" => NoClose(Append(w, f))
         /\ OnlyFin(w) /\ f = "fin" => OnlyFin(Append(w, f))
<1> DEFINE v == Append(w, f)
<1>1. /\ v \in Seq(Sent) /\ Len(v) = Len(w) + 1 /\ Len(w) \in Nat
      /\ v[Len(w) + 1] = f /\ \A i \in 1..Len(w) : v[i] = w[i]
  OBVIOUS
<1>2. v # w
  <2> HIDE DEF v
  <2> QED BY <1>1
<1>3. \A i \in 1..Len(v) : i \in 1..Len(w) \/ i = Len(w) + 1
  <2> HIDE DEF v
  <2> QED BY <1>1
<1> HIDE DEF v
<1>4. CloseLast(v)
  <2> SUFFICES ASSUME NEW i \in 1..Len(v), v[i] = "close", NEW j \in (i + 1)..Len(v)
               PROVE  v[j] = "fin"
    BY DEF CloseLast
  <2>1. i \in 1..Len(w) /\ w[i] = "close"
    BY <1>1
  <2>2. f = "fin"
    BY <2>1 DEF NoClose
  <2> QED BY <1>1, <1>3, <2>1, <2>2 DEF CloseLast
<1>5. NoClose(w) /\ f # "close" => NoClose(v)
  BY <1>1, <1>3 DEF NoClose
<1>6. OnlyFin(w) /\ f = "fin" => OnlyFin(v)
  BY <1>1, <1>3 DEF OnlyFin
<1> QED BY <1>1, <1>2, <1>4, <1>5, <1>6 DEF v

LEMMA Joined ==
  ASSUME NEW w \in Seq(Frames), NEW o \in Seq(Sent), CloseLast(w), CloseLast(o),
         NoClose(w) \/ OnlyFin(o)
  PROVE  /\ w \o o \in Seq(Frames) /\ CloseLast(w \o o)
         /\ NoClose(w) /\ NoClose(o) => NoClose(w \o o)
         /\ \A i \in 1..Len(w \o o) :
              (w \o o)[i] = "101" => i \in 1..Len(w) /\ w[i] = "101"
<1> DEFINE v == w \o o
<1>1. /\ v \in Seq(Frames) /\ Len(v) = Len(w) + Len(o) /\ Len(w) \in Nat /\ Len(o) \in Nat
      /\ \A i \in 1..Len(w) : v[i] = w[i]
      /\ \A i \in 1..Len(o) : v[Len(w) + i] = o[i] /\ o[i] \in Sent
  BY DEF Sent
<1> HIDE DEF v
<1>2. ASSUME NEW i \in 1..Len(v), i \notin 1..Len(w)
      PROVE  i - Len(w) \in 1..Len(o) /\ v[i] = o[i - Len(w)]
  <2>1. i - Len(w) \in 1..Len(o) /\ i = Len(w) + (i - Len(w))
    BY <1>1, <1>2
  <2> QED BY <1>1, <2>1
<1>3. CloseLast(v)
  <2> SUFFICES ASSUME NEW i \in 1..Len(v), v[i] = "close", NEW j \in (i + 1)..Len(v)
               PROVE  v[j] = "fin"
    BY DEF CloseLast
  <2>0. i \in Nat /\ j \in Nat /\ i < j /\ j \in 1..Len(v)
    BY <1>1
  <2>1. CASE i \in 1..Len(w)
    <3>1. w[i] = "close"
      BY <1>1, <2>1
    <3>2. OnlyFin(o)
      BY <2>1, <3>1 DEF NoClose
    <3>3. CASE j \in 1..Len(w)
      <4>1. j \in (i + 1)..Len(w)
        BY <1>1, <2>0, <3>3
      <4> QED BY <1>1, <2>1, <3>1, <3>3, <4>1 DEF CloseLast
    <3>4. CASE j \notin 1..Len(w)
      BY <1>2, <2>0, <3>2, <3>4 DEF OnlyFin
    <3> QED BY <3>3, <3>4
  <2>2. CASE i \notin 1..Len(w)
    <3>1. i - Len(w) \in 1..Len(o) /\ o[i - Len(w)] = "close"
      BY <1>2, <2>2
    <3>2. j \notin 1..Len(w)
      BY <1>1, <2>0, <2>2
    <3>3. j - Len(w) \in 1..Len(o) /\ v[j] = o[j - Len(w)]
      BY <1>2, <2>0, <3>2
    <3>4. j - Len(w) \in (i - Len(w) + 1)..Len(o)
      BY <1>1, <2>0, <3>1, <3>3
    <3> QED BY Zenon, <3>1, <3>3, <3>4 DEF CloseLast
  <2> QED BY <2>1, <2>2
<1>4. NoClose(w) /\ NoClose(o) => NoClose(v)
  BY Zenon, <1>1, <1>2 DEF NoClose
<1>5. \A i \in 1..Len(v) : v[i] = "101" => i \in 1..Len(w) /\ w[i] = "101"
  BY <1>1, <1>2 DEF Sent
<1> QED BY <1>1, <1>3, <1>4, <1>5 DEF v

LEMMA Shortened ==
  ASSUME NEW w \in Seq(Frames), w # <<>>
  PROVE  /\ Tail(w) \in Seq(Frames) /\ Head(w) \in Frames /\ Head(w) = w[1]
         /\ CloseLast(w) => CloseLast(Tail(w))
         /\ NoClose(w) => NoClose(Tail(w))
         /\ \A i \in 1..Len(Tail(w)) : i + 1 \in 1..Len(w) /\ Tail(w)[i] = w[i + 1]
<1> DEFINE v == Tail(w)
<1>1. /\ v \in Seq(Frames) /\ Len(v) = Len(w) - 1 /\ Len(w) \in Nat /\ Len(w) > 0
      /\ Head(w) = w[1] /\ w[1] \in Frames
      /\ \A i \in 1..Len(v) : v[i] = w[i + 1]
  OBVIOUS
<1> HIDE DEF v
<1>2. \A i \in 1..Len(v) : i + 1 \in 1..Len(w) /\ v[i] = w[i + 1]
  BY <1>1
<1>3. CloseLast(w) => CloseLast(v)
  <2> SUFFICES ASSUME CloseLast(w), NEW i \in 1..Len(v), v[i] = "close",
                      NEW j \in (i + 1)..Len(v)
               PROVE  v[j] = "fin"
    BY DEF CloseLast
  <2>1. j \in 1..Len(v) /\ j + 1 \in (i + 1 + 1)..Len(w)
    BY <1>1
  <2> QED BY <1>2, <2>1 DEF CloseLast
<1>4. NoClose(w) => NoClose(v)
  BY <1>2 DEF NoClose
<1> QED BY <1>1, <1>2, <1>3, <1>4 DEF v

-----------------------------------------------------------------------------
(* The handlers.                                                           *)

LEMMA SendResult ==
  ASSUME NEW b, NEW s, Result(s, b), NEW f \in Sent, f # "fin",
         NEW ok
  PROVE  /\ Partial(websock_vsend(s, f, ok), b)
         /\ f # "close" => Result(websock_vsend(s, f, ok), b)
         /\ websock_vsend(s, f, ok).c = s.c
<1> DEFINE r == websock_vsend(s, f, ok)
<1>1. Partial(s, b)
  BY DEF Result
<1>2. CASE s.c.st = "OPEN" /\ ok
  <2>1. r.c = s.c /\ r.out = Append(s.out, f)
    BY <1>2 DEF websock_vsend, St
  <2>2. NoClose(s.out) /\ b
    BY <1>2 DEF Result, Partial, Early
  <2>3. s.out \in Seq(Sent) /\ CloseLast(s.out)
    BY DEF Result, Partial
  <2>4. /\ Append(s.out, f) \in Seq(Sent) /\ CloseLast(Append(s.out, f))
        /\ f # "close" => NoClose(Append(s.out, f))
    BY <2>2, <2>3, Appended
  <2> HIDE DEF r
  <2>5. Partial(r, b)
    BY <1>1, <2>1, <2>2, <2>4 DEF Partial
  <2>6. f # "close" => Result(r, b)
    BY <2>1, <2>4, <2>5 DEF Result
  <2> QED BY <2>1, <2>5, <2>6 DEF r
<1>3. CASE ~(s.c.st = "OPEN" /\ ok)
  BY <1>1, <1>3 DEF websock_vsend
<1> QED BY <1>2, <1>3

LEMMA CloseResult ==
  ASSUME NEW b, NEW s, Result(s, b), NEW ok
  PROVE  /\ Result(websock_close(s, ok), b)
         /\ websock_close(s, ok).c.tc = s.c.tc /\ websock_close(s, ok).c.ref = s.c.ref
         /\ websock_close(s, ok).c.alive = s.c.alive
         /\ websock_close(s, ok).c.st \in {s.c.st, "CLOSING"}
<1> DEFINE r == websock_vsend(s, "close", ok)
           d == [s.c EXCEPT !.st = "CLOSING"]
           q == websock_close(s, ok)
<1>0. "close" \in Sent
  BY DEF Sent, Frames
<1>1. CASE s.c.st = "OPEN" /\ ok
  <2>1. r = St(s.c, Append(s.out, "close"))
    BY <1>1 DEF websock_vsend
  <2>2. NoClose(s.out) /\ b /\ s.out \in Seq(Sent) /\ CloseLast(s.out)
    BY <1>1 DEF Result, Partial, Early
  <2>3. /\ Append(s.out, "close") # s.out
        /\ Append(s.out, "close") \in Seq(Sent) /\ CloseLast(Append(s.out, "close"))
    BY <1>0, <2>2, Appended
  <2>4. q.c = d /\ q.out = Append(s.out, "close")
    BY <2>1, <2>3 DEF websock_close, St
  <2>5. s.c \in Conn /\ ConnOk(s.c)
    BY DEF Result, Partial
  <2>6. d \in Conn
    BY <2>5 DEF Conn
  <2>7. ConnOk(d) /\ d.st = "CLOSING" /\ d.tc = s.c.tc /\ d.ref = s.c.ref /\ d.alive = s.c.alive
    BY <1>1, <2>5 DEF Conn, ConnOk
  <2> HIDE DEF d, q, r
  <2>8. Result(q, b)
    BY <2>2, <2>3, <2>4, <2>6, <2>7 DEF Result, Partial, Early
  <2> QED BY <2>4, <2>7, <2>8 DEF q
<1>2. CASE ~(s.c.st = "OPEN" /\ ok)
  <2>1. q = s
    BY <1>2 DEF websock_vsend, websock_close
  <2> QED BY <2>1
<1> QED BY <1>1, <1>2

(* Free: what remains of the connection.                                   *)
LEMMA FreeResult ==
  ASSUME NEW b, NEW s, s.c \in Conn, s.out \in Seq(Sent), CloseLast(s.out),
         s.c.st \in Early => b /\ NoClose(s.out),
         ~b => OnlyFin(s.out), s.c.told = 1 => s.c.st = "CLOSED"
  PROVE  /\ Result(Free(s), b) /\ ~Free(s).c.alive /\ ~Free(s).c.tc
         /\ Free(s).c.told = s.c.told
<1> DEFINE c == [s.c EXCEPT !.tc = FALSE]
           d == [c EXCEPT !.alive = FALSE, !.tmr = "off", !.ref = FALSE]
           o == IF s.c.tc THEN Append(s.out, "fin") ELSE s.out
           r == Free(s)
<1>1. r.c = d /\ r.out = o
  BY DEF Free, DropTcp, St
<1>2. c \in Conn
  BY Zenon DEF Conn
<1>3. d \in Conn
  <2> HIDE DEF c
  <2> QED BY Zenon, <1>2 DEF Conn
<1>4. ConnOk(d) /\ d.st = s.c.st /\ ~d.alive /\ ~d.tc /\ d.told = s.c.told
  BY DEF Conn, ConnOk
<1>5. "fin" \in Sent /\ "fin" # "close"
  BY DEF Sent, Frames
<1>6. /\ o \in Seq(Sent) /\ CloseLast(o)
      /\ NoClose(s.out) => NoClose(o)
      /\ OnlyFin(s.out) => OnlyFin(o)
  BY <1>5, Appended
<1> HIDE DEF c, d, o, r
<1> QED BY <1>1, <1>3, <1>4, <1>6 DEF Result, Partial, r

LEMMA DestructorResult ==
  ASSUME NEW b, NEW s, Result(s, b), NEW ok, s.c.alive
  PROVE  Result(conn_destructor(s, ok), b) /\ conn_destructor(s, ok).c.told = s.c.told
<1> DEFINE r == IF s.c.st = "OPEN" THEN websock_close(s, ok) ELSE s
           d == [r.c EXCEPT !.ref = FALSE, !.tmr = "close"]
           q == conn_destructor(s, ok)
<1>1. Result(r, b) /\ r.c.alive
  BY CloseResult
<1>2. r.c.told = s.c.told
  BY DEF websock_close, websock_vsend, St
<1>3. q = IF r.c.st = "CLOSING" THEN St([r.c EXCEPT !.ref = FALSE, !.tmr = "close"], r.out)
          ELSE Free(r)
  BY DEF conn_destructor
<1> HIDE DEF r, q
<1>4. r.c \in Conn /\ ConnOk(r.c)
  BY <1>1 DEF Result, Partial
<1>5. CASE r.c.st = "CLOSING"
  <2>1. q.c = d /\ q.out = r.out
    BY <1>3, <1>5 DEF St
  <2>2. d \in Conn
    BY Zenon, <1>4 DEF Conn
  <2>3. ConnOk(d) /\ d.st = "CLOSING" /\ d.told = s.c.told
    BY <1>1, <1>2, <1>4, <1>5 DEF ConnOk, Conn
  <2> HIDE DEF d
  <2> QED BY <1>1, <2>1, <2>2, <2>3, <1>5 DEF Result, Partial, q
<1>6. CASE r.c.st # "CLOSING"
  <2>1. /\ r.out \in Seq(Sent) /\ CloseLast(r.out)
        /\ r.c.st \in Early => b /\ NoClose(r.out)
    BY <1>1 DEF Result, Partial
  <2>2. ~b => OnlyFin(r.out)
    BY <1>1 DEF Result, Partial
  <2>3. r.c.told = 1 => r.c.st = "CLOSED"
    BY <1>4 DEF ConnOk
  <2>4. Result(Free(r), b) /\ Free(r).c.told = r.c.told
    BY <1>4, <2>1, <2>2, <2>3, FreeResult
  <2> QED BY <1>2, <1>3, <1>6, <2>4 DEF q
<1> QED BY <1>5, <1>6

(* conn_close: the owner hears of the end, if there is one.                *)
LEMMA EndResult ==
  ASSUME NEW b, NEW s, Partial(s, b), NEW drop,
         s.c.alive, s.c.told = 0
  PROVE  /\ Result(conn_close(s, drop), b)
         /\ ~conn_close(s, drop).c.tc
         /\ conn_close(s, drop).c.told # 0 => s.c.ref
<1> DEFINE a == [s.c EXCEPT !.tmr = "off", !.st = "CLOSED"]
           c == [a EXCEPT !.tc = FALSE]
           t == [c EXCEPT !.told = 1]
           o == IF s.c.tc THEN Append(s.out, "fin") ELSE s.out
           q == conn_close(s, drop)
<1>1. s.c \in Conn /\ ConnOk(s.c) /\ s.out \in Seq(Sent) /\ CloseLast(s.out)
  BY DEF Partial
<1>2. a \in Conn
  BY Zenon, <1>1 DEF Conn
<1>3. c \in Conn
  <2> HIDE DEF a
  <2> QED BY Zenon, <1>2 DEF Conn
<1>4. t \in Conn
  <2> HIDE DEF c
  <2> QED BY <1>3 DEF Conn
<1>5. /\ c.told = 0 /\ c.st = "CLOSED" /\ ~c.tc /\ c.tmr = "off" /\ c.alive /\ c.ref = s.c.ref
      /\ t.told = 1 /\ t.st = "CLOSED" /\ ~t.tc /\ t.tmr = "off" /\ t.alive /\ t.ref = s.c.ref
  BY <1>1 DEF Conn
<1>6. /\ o \in Seq(Sent) /\ CloseLast(o) /\ (~b => OnlyFin(o))
  BY <1>1, Appended DEF Sent, Frames, Partial
<1> DEFINE r == DropTcp(St(a, s.out))
<1>a. r = St(c, o)
  <2>1. a.tc = s.c.tc
    BY <1>1 DEF Conn
  <2> HIDE DEF a
  <2> QED BY Zenon, <2>1 DEF DropTcp, St
<1>b. Told(r) = St(t, o)
  <2> SUFFICES Told(St(c, o)) = St(t, o)
    BY <1>a
  <2> HIDE DEF c, o
  <2> QED BY <1>5 DEF Told, St
<1>7. q = CASE s.c.ref /\ ~drop -> St(t, o)
            [] s.c.ref /\ drop  -> conn_destructor(St(t, o), FALSE)
            [] OTHER            -> conn_destructor(St(c, o), FALSE)
  <2>1. q = CASE s.c.ref /\ ~drop -> Told(r)
              [] s.c.ref /\ drop  -> conn_destructor(Told(r), FALSE)
              [] OTHER            -> conn_destructor(r, FALSE)
    BY DEF conn_close
  <2> HIDE DEF c, t, o, r, q
  <2> QED BY <1>a, <1>b, <2>1
<1> HIDE DEF a, c, t, o, r, q
<1>8. \A x : St(x, o).c = x /\ St(x, o).out = o
  BY DEF St
<1>9. Free(St(t, o)) = conn_destructor(St(t, o), FALSE) /\ Free(St(c, o)) = conn_destructor(St(c, o), FALSE)
  BY Zenon, <1>5, <1>8 DEF conn_destructor
<1>10. /\ Result(Free(St(t, o)), b) /\ ~Free(St(t, o)).c.tc
       /\ Result(Free(St(c, o)), b) /\ ~Free(St(c, o)).c.tc /\ Free(St(c, o)).c.told = 0
  <2>1. /\ St(t, o).c \in Conn /\ St(t, o).out \in Seq(Sent) /\ CloseLast(St(t, o).out)
        /\ St(t, o).c.st = "CLOSED" /\ (~b => OnlyFin(St(t, o).out))
    BY <1>4, <1>5, <1>6, <1>8
  <2>2. /\ St(c, o).c \in Conn /\ St(c, o).out \in Seq(Sent) /\ CloseLast(St(c, o).out)
        /\ St(c, o).c.st = "CLOSED" /\ (~b => OnlyFin(St(c, o).out)) /\ St(c, o).c.told = 0
    BY <1>3, <1>5, <1>6, <1>8
  <2>3. Result(Free(St(t, o)), b) /\ ~Free(St(t, o)).c.tc
    BY Zenon, <2>1, FreeResult DEF Early
  <2>4. Result(Free(St(c, o)), b) /\ ~Free(St(c, o)).c.tc /\ Free(St(c, o)).c.told = 0
    BY <2>2, FreeResult DEF Early
  <2> QED BY <2>3, <2>4
<1>11. s.c.ref => Result(St(t, o), b)
  BY ZenonT(30), <1>4, <1>5, <1>6, <1>8 DEF Result, Partial, ConnOk, Early
<1> QED BY ZenonT(30), <1>5, <1>7, <1>8, <1>9, <1>10, <1>11 DEF q

LEMMA OwnerResult ==
  ASSUME NEW b, NEW s, Result(s, b), NEW acts, NEW ok, NEW r, r = Owner(s, acts, ok)
  PROVE  /\ Result(r, b)
         /\ r.c.tc = s.c.tc /\ r.c.ref = s.c.ref /\ r.c.alive = s.c.alive
<1> DEFINE a == IF "send" \in acts THEN websock_vsend(s, "data", ok) ELSE s
<1>1. "data" \in Sent /\ "data" # "fin" /\ "data" # "close"
  BY DEF Sent, Frames
<1>2. Result(a, b) /\ a.c = s.c
  BY <1>1, SendResult
<1>3. r = IF "close" \in acts THEN websock_close(a, ok) ELSE a
  BY DEF Owner
<1> HIDE DEF a
<1> QED BY <1>2, <1>3, CloseResult

(* A connection that has TCP has not been told of its end.                 *)
LEMMA NotTold ==
  ASSUME NEW c \in Conn, ConnOk(c), c.tc \/ c.tmr = "close" \/ c.st = "CONNECTING"
  PROVE  c.told = 0
  BY DEF Conn, ConnOk

LEMMA DataResult ==
  ASSUME NEW b, NEW s, Result(s, b), NEW acts, NEW drop,
         NEW ok, s.c.tc
  PROVE  Result(Data(s, acts, drop, ok), b) /\ Data(s, acts, drop, ok).c.told = 0
<1> DEFINE a == Owner(s, acts, ok)
           k == IF a.c.st = "OPEN" THEN websock_close(a, ok) ELSE a
           d == [k.c EXCEPT !.st = "CLOSING"]
           r == Data(s, acts, drop, ok)
<1>0. s.c \in Conn /\ ConnOk(s.c) /\ s.c.told = 0 /\ s.c.alive
  BY NotTold DEF Result, Partial, ConnOk
<1>1. CASE ~s.c.ref
  BY <1>0, <1>1 DEF Data
<1>2. CASE s.c.ref
  <2>1. Result(a, b) /\ a.c.tc = s.c.tc /\ a.c.ref = s.c.ref /\ a.c.alive = s.c.alive
    <3>1. Result(s, b)
      OBVIOUS
    <3>2. a = Owner(s, acts, ok)
      OBVIOUS
    <3> HIDE DEF a
    <3>3. Result(a, b)
      BY <3>1, <3>2, OwnerResult
    <3>4. a.c.ref = s.c.ref
      BY <3>1, <3>2, OwnerResult
    <3>5. a.c.tc = s.c.tc
      BY Zenon, <3>1, <3>2, OwnerResult
    <3>6. a.c.alive = s.c.alive
      BY <3>1, <3>2, OwnerResult
    <3> QED BY <3>3, <3>4, <3>5, <3>6
  <2>2. r = IF drop THEN conn_destructor(St(d, k.out), ok) ELSE a
    BY <1>2 DEF Data
  <2> HIDE DEF a, r
  <2>3. Result(k, b) /\ k.c.tc = s.c.tc /\ k.c.ref = s.c.ref /\ k.c.alive = s.c.alive
    <3>1. CASE a.c.st = "OPEN"
      <4>1. k = websock_close(a, ok)
        BY <3>1
      <4> HIDE DEF k
      <4> QED BY Zenon, <2>1, <4>1, CloseResult
    <3>2. CASE a.c.st # "OPEN"
      BY Zenon, <2>1, <3>2
    <3> QED BY Zenon, <3>1, <3>2
  <2> HIDE DEF k
  <2>4. /\ a.c \in Conn /\ ConnOk(a.c) /\ k.c \in Conn /\ ConnOk(k.c)
        /\ k.out \in Seq(Sent) /\ CloseLast(k.out) /\ (~b => OnlyFin(k.out))
    BY <2>1, <2>3 DEF Result, Partial
  <2>5. a.c.told = 0 /\ k.c.told = 0
    BY Zenon, <2>1, <2>3, <2>4, NotTold
  <2>6. d \in Conn
    BY <2>4 DEF Conn
  <2>7. ConnOk(d) /\ d.st = "CLOSING" /\ d.alive /\ d.told = 0
    BY Zenon, <1>0, <1>2, <2>3, <2>4, <2>5 DEF Conn, ConnOk
  <2> HIDE DEF d
  <2>8. St(d, k.out).c = d /\ St(d, k.out).out = k.out
    BY DEF St
  <2>9. Result(St(d, k.out), b)
    BY <2>4, <2>6, <2>7, <2>8 DEF Result, Partial, Early
  <2>10. /\ Result(conn_destructor(St(d, k.out), ok), b)
         /\ conn_destructor(St(d, k.out), ok).c.told = 0
    BY <2>7, <2>8, <2>9, DestructorResult
  <2> QED BY <2>1, <2>2, <2>5, <2>10 DEF r
<1> QED BY <1>1, <1>2

(* What a step may do to a connection's count of the calls of closeh.      *)
Tells(c, d) == d.told # c.told => c.told = 0 /\ c.ref /\ ~d.tc

LEMMA ReceivedResult ==
  ASSUME NEW b, NEW s, Result(s, b), NEW f \in Sent, f # "fin", NEW acts,
         NEW drop, NEW ok, s.c.tc
  PROVE  /\ Result(recv_handler(s, f, acts, drop, ok), b)
         /\ Tells(s.c, recv_handler(s, f, acts, drop, ok).c)
<1> DEFINE r == recv_handler(s, f, acts, drop, ok)
<1>0. s.c \in Conn /\ ConnOk(s.c) /\ s.c.told = 0 /\ s.c.alive
  BY NotTold DEF Result, Partial, ConnOk
<1>1. CASE f = "data"
  BY <1>0, <1>1, DataResult DEF recv_handler, Tells
<1>2. CASE f = "ping"
  <2>1. "pong" \in Sent /\ "pong" # "fin" /\ "pong" # "close"
    BY DEF Sent, Frames
  <2> QED BY <1>0, <1>2, <2>1, SendResult DEF recv_handler, Tells
<1>3. CASE f = "pong"
  BY <1>3 DEF recv_handler, Tells
<1>4. CASE f = "close"
  <2> DEFINE q == websock_vsend(s, "close", ok)
  <2>1. Partial(q, b) /\ q.c = s.c
    BY <1>4, SendResult
  <2>2. r = conn_close(q, drop)
    BY <1>4 DEF recv_handler
  <2> HIDE DEF q
  <2>3. Result(conn_close(q, drop), b) /\ ~conn_close(q, drop).c.tc
        /\ (conn_close(q, drop).c.told # 0 => q.c.ref)
    BY <1>0, <2>1, EndResult
  <2> QED BY <1>0, <2>1, <2>2, <2>3 DEF Tells
<1>5. CASE f = "bad"
  <2> DEFINE q == websock_close(s, ok)
  <2>1. Result(q, b) /\ q.c.tc = s.c.tc /\ q.c.ref = s.c.ref /\ q.c.alive = s.c.alive
    BY ZenonT(30), CloseResult
  <2>2. r = conn_close(q, drop)
    BY <1>5 DEF recv_handler
  <2> HIDE DEF q
  <2>3. Partial(q, b) /\ q.c.told = 0
    BY Zenon, <2>1, NotTold DEF Result, Partial
  <2>4. Result(conn_close(q, drop), b) /\ ~conn_close(q, drop).c.tc
        /\ (conn_close(q, drop).c.told # 0 => q.c.ref)
    BY Zenon, <1>0, <2>1, <2>3, EndResult
  <2> QED BY <1>0, <2>1, <2>2, <2>4 DEF Tells
<1> QED BY <1>1, <1>2, <1>3, <1>4, <1>5 DEF Sent, Frames

-----------------------------------------------------------------------------
(* Steps.                                                                  *)

LEMMA EndFacts ==
  ASSUME WsInv, NEW e \in Ends, NEW b, conn[e].st \in Early => b
  PROVE  /\ conn[e] \in Conn /\ ConnOk(conn[e]) /\ wire[e] \in Seq(Frames) /\ WireOk(e)
         /\ Peer(e) \in Ends /\ Peer(e) # e /\ (\A d \in Ends : d = e \/ d = Peer(e))
         /\ Result(St(conn[e], <<>>), b) /\ St(conn[e], <<>>).c = conn[e]
<1>1. conn[e] \in Conn /\ ConnOk(conn[e]) /\ wire[e] \in Seq(Frames) /\ WireOk(e)
  BY DEF WsInv, TypeOK
<1>2. Peer(e) \in Ends /\ Peer(e) # e /\ (\A d \in Ends : d = e \/ d = Peer(e))
  BY DEF Peer, Ends
<1>3. St(conn[e], <<>>).c = conn[e] /\ St(conn[e], <<>>).out = <<>>
  BY DEF St
<1>4. <<>> \in Seq(Sent) /\ CloseLast(<<>>) /\ NoClose(<<>>) /\ OnlyFin(<<>>)
  BY DEF CloseLast, NoClose, OnlyFin
<1> QED BY Zenon, <1>1, <1>2, <1>3, <1>4 DEF Result, Partial

(* The wire behind the frames of a result.                                 *)
LEMMA PutOk ==
  ASSUME WsInv, NEW e \in Ends, NEW b, b => conn[e].st \in Early,
         NEW r, Result(r, b)
  PROVE  /\ Put(e, r) \in Seq(Frames) /\ CloseLast(Put(e, r))
         /\ r.c.st \in Early => NoClose(Put(e, r))
         /\ \A i \in 1..Len(Put(e, r)) :
              Put(e, r)[i] = "101" => i \in 1..Len(wire[e]) /\ wire[e][i] = "101"
<1>1. wire[e] \in Seq(Frames) /\ CloseLast(wire[e]) /\ (b => NoClose(wire[e]))
  BY DEF WsInv, TypeOK, WireOk, NoClose
<1>2. /\ r.out \in Seq(Sent) /\ CloseLast(r.out) /\ (~b => OnlyFin(r.out))
      /\ r.c.st \in Early => b /\ NoClose(r.out)
  BY DEF Result, Partial
<1>3. NoClose(wire[e]) \/ OnlyFin(r.out)
  BY <1>1, <1>2
<1>4. Put(e, r) = wire[e] \/ Put(e, r) = wire[e] \o r.out
  BY Zenon DEF Put
<1> HIDE DEF Put
<1>5. CASE Put(e, r) = wire[e]
  BY <1>1, <1>2, <1>5
<1>6. CASE Put(e, r) = wire[e] \o r.out
  <2> DEFINE w == wire[e]
             o == r.out
             v == w \o o
  <2>1. /\ w \in Seq(Frames) /\ CloseLast(w) /\ (b => NoClose(w))
        /\ o \in Seq(Sent) /\ CloseLast(o) /\ (NoClose(w) \/ OnlyFin(o))
    BY <1>1, <1>2, <1>3
  <2>2. /\ v \in Seq(Frames) /\ CloseLast(v)
        /\ NoClose(w) /\ NoClose(o) => NoClose(v)
        /\ \A i \in 1..Len(v) : v[i] = "101" => i \in 1..Len(w) /\ w[i] = "101"
    <3> HIDE DEF w, o
    <3> QED BY <2>1, Joined
  <2>3. Put(e, r) = v /\ (r.c.st \in Early => NoClose(v))
    <3> HIDE DEF v
    <3> QED BY <1>1, <1>2, <2>2, <1>6 DEF v
  <2> HIDE DEF v
  <2> QED BY <2>2, <2>3
<1> QED BY Zenon, <1>4, <1>5, <1>6

(* What WireOk says of the wire w behind end e with connection c, where a  *)
(* says whether the active end has TCP.                                    *)
Behind(w, e, c, a) ==
  /\ w \in Seq(Frames) /\ CloseLast(w) /\ (c.st \in Early => NoClose(w))
  /\ \A i \in 1..Len(w) : w[i] = "101" => e = "passive" /\ i = 1 /\ ~a

LEMMA Moved ==
  ASSUME WsInv, NEW e \in Ends, NEW c \in Conn, ConnOk(c), Tells(conn[e], c),
         NEW a, a = conn'["active"].tc,
         NEW w, Behind(w, e, c, a), NEW v, Behind(v, Peer(e), conn[Peer(e)], a),
         conn' \in [Ends -> Conn], conn'[e] = c, conn'[Peer(e)] = conn[Peer(e)],
         wire' \in [Ends -> Seq(Frames)], wire'[e] = w, wire'[Peer(e)] = v
  PROVE  WsInv' /\ ToldOnce
<1>0. conn \in [Ends -> Conn] /\ Peer(e) \in Ends /\ Peer(e) # e
  BY DEF WsInv, TypeOK, Peer, Ends
<1>1. TypeOK'
  BY <1>0 DEF TypeOK, Behind
<1>2. \A d \in Ends : conn'[d] = IF d = e THEN c ELSE conn[d]
  BY DEF Peer, Ends
<1>3. \A d \in Ends : wire'[d] = IF d = e THEN w ELSE v
  BY DEF Peer, Ends
<1>4. ASSUME NEW d \in Ends PROVE ConnOk(conn[d])' /\ WireOk(d)'
  <2>1. ConnOk(conn'[d])
    BY Zenon, <1>2 DEF WsInv
  <2>2. d = e \/ d = Peer(e)
    BY DEF Peer, Ends
  <2>3. ConnOk(conn[d])'
    BY <2>1 DEF ConnOk
  <2>4. CloseLast(wire'[d])
    BY Zenon, <1>3 DEF Behind
  <2>5. conn'[d].st \in Early => NoClose(wire'[d])
    BY <1>0, <1>2, <1>3, <2>2 DEF Behind
  <2>6. \A i \in 1..Len(wire'[d]) :
          wire'[d][i] = "101" => d = "passive" /\ i = 1 /\ ~conn'["active"].tc
    BY <1>0, <1>3, <2>2 DEF Behind
  <2> QED BY <2>3, <2>4, <2>5, <2>6 DEF WireOk, CloseLast, NoClose
<1>5. ToldOnce
  BY Zenon, <1>2 DEF ToldOnce, Tells
<1> QED BY <1>1, <1>4, <1>5 DEF WsInv

(* A handler of end e has run, and nothing was read.                       *)
LEMMA Handled ==
  ASSUME WsInv, NEW e \in Ends, NEW b, b => conn[e].st \in Early,
         NEW r, Result(r, b), Tells(conn[e], r.c), r.c.tc => conn[e].tc,
         conn' = [conn EXCEPT ![e] = r.c],
         wire' = [wire EXCEPT ![e] = Put(e, r)]
  PROVE  WsInv' /\ ToldOnce
<1> DEFINE w == Put(e, r)
           v == wire[Peer(e)]
           c == r.c
<1>0. /\ conn \in [Ends -> Conn] /\ wire \in [Ends -> Seq(Frames)]
      /\ Peer(e) \in Ends /\ Peer(e) # e /\ (\A d \in Ends : d = e \/ d = Peer(e))
  BY DEF WsInv, TypeOK, Peer, Ends
<1>1. /\ w \in Seq(Frames) /\ CloseLast(w) /\ (c.st \in Early => NoClose(w))
      /\ \A i \in 1..Len(w) : w[i] = "101" => i \in 1..Len(wire[e]) /\ wire[e][i] = "101"
  BY PutOk
<1>2. c \in Conn /\ ConnOk(c)
  BY DEF Result, Partial
<1>3. /\ v \in Seq(Frames) /\ CloseLast(v) /\ (conn[Peer(e)].st \in Early => NoClose(v))
      /\ \A i \in 1..Len(v) :
           v[i] = "101" => Peer(e) = "passive" /\ i = 1 /\ ~conn["active"].tc
  BY <1>0 DEF WsInv, WireOk, NoClose
<1>4. \A i \in 1..Len(wire[e]) :
        wire[e][i] = "101" => e = "passive" /\ i = 1 /\ ~conn["active"].tc
  BY DEF WsInv, WireOk
<1>5. ~conn["active"].tc => ~conn'["active"].tc
  BY <1>0 DEF Ends
<1> HIDE DEF w
<1>6. wire' \in [Ends -> Seq(Frames)] /\ wire'[e] = w /\ wire'[Peer(e)] = v
  BY <1>0, <1>1 DEF w
<1> HIDE DEF v, c
<1> DEFINE a == conn'["active"].tc
<1>7. Behind(w, e, c, a) /\ Behind(v, Peer(e), conn[Peer(e)], a)
  BY <1>1, <1>3, <1>4, <1>5 DEF Behind
<1>8. /\ conn' \in [Ends -> Conn] /\ conn'[e] = c /\ conn'[Peer(e)] = conn[Peer(e)]
      /\ Tells(conn[e], c) /\ a = conn'["active"].tc
  BY <1>0, <1>2 DEF c
<1> HIDE DEF a
<1> QED BY <1>2, <1>6, <1>7, <1>8, Moved

(* The same, of a handler that has read the first frame of the peer.       *)
LEMMA ReadAndHandled ==
  ASSUME WsInv, NEW e \in Ends, NEW b, b => conn[e].st \in Early,
         NEW r, Result(r, b), Tells(conn[e], r.c), r.c.tc => conn[e].tc,
         wire[Peer(e)] # <<>>,
         conn' = [conn EXCEPT ![e] = r.c],
         wire' = [wire EXCEPT ![Peer(e)] = Tail(@), ![e] = Put(e, r)]
  PROVE  WsInv' /\ ToldOnce
<1> DEFINE w == Put(e, r)
           u == wire[Peer(e)]
           v == Tail(u)
           c == r.c
<1>0. /\ conn \in [Ends -> Conn] /\ wire \in [Ends -> Seq(Frames)]
      /\ Peer(e) \in Ends /\ Peer(e) # e /\ (\A d \in Ends : d = e \/ d = Peer(e))
  BY DEF WsInv, TypeOK, Peer, Ends
<1>1. /\ w \in Seq(Frames) /\ CloseLast(w) /\ (c.st \in Early => NoClose(w))
      /\ \A i \in 1..Len(w) : w[i] = "101" => i \in 1..Len(wire[e]) /\ wire[e][i] = "101"
  BY PutOk
<1>2. c \in Conn /\ ConnOk(c)
  BY DEF Result, Partial
<1>3. /\ u \in Seq(Frames) /\ CloseLast(u) /\ (conn[Peer(e)].st \in Early => NoClose(u))
      /\ \A i \in 1..Len(u) :
           u[i] = "101" => Peer(e) = "passive" /\ i = 1 /\ ~conn["active"].tc
  BY <1>0 DEF WsInv, WireOk, NoClose
<1>4. \A i \in 1..Len(wire[e]) :
        wire[e][i] = "101" => e = "passive" /\ i = 1 /\ ~conn["active"].tc
  BY DEF WsInv, WireOk
<1>5. ~conn["active"].tc => ~conn'["active"].tc
  BY <1>0 DEF Ends
<1> HIDE DEF w
<1>6. wire'[e] = w /\ wire'[Peer(e)] = v
  BY <1>0 DEF w
<1>7. u # <<>>
  OBVIOUS
<1> HIDE DEF u, c
<1>8. /\ v \in Seq(Frames) /\ CloseLast(v) /\ (NoClose(u) => NoClose(v))
      /\ \A i \in 1..Len(v) : i + 1 \in 1..Len(u) /\ v[i] = u[i + 1]
  BY <1>3, <1>7, Shortened
<1>a. wire' \in [Ends -> Seq(Frames)]
  BY Zenon, <1>0, <1>1, <1>8 DEF u, w
<1> HIDE DEF v
<1>9. \A i \in 1..Len(v) : v[i] # "101"
  <2> SUFFICES ASSUME NEW i \in 1..Len(v), v[i] = "101" PROVE FALSE
    OBVIOUS
  <2>1. i + 1 = 1
    BY SMTT(30), <1>3, <1>8
  <2> QED BY <2>1
<1> DEFINE a == conn'["active"].tc
<1>10. Behind(w, e, c, a)
  BY <1>1, <1>4, <1>5 DEF Behind
<1>11. Behind(v, Peer(e), conn[Peer(e)], a)
  BY <1>3, <1>8, <1>9 DEF Behind
<1>12. /\ conn' \in [Ends -> Conn] /\ conn'[e] = c /\ conn'[Peer(e)] = conn[Peer(e)]
       /\ Tells(conn[e], c) /\ a = conn'["active"].tc
  BY <1>0, <1>2 DEF c
<1> HIDE DEF a
<1>13. /\ WsInv /\ e \in Ends /\ c \in Conn /\ ConnOk(c) /\ Tells(conn[e], c)
       /\ a = conn'["active"].tc /\ Behind(w, e, c, a) /\ Behind(v, Peer(e), conn[Peer(e)], a)
       /\ conn' \in [Ends -> Conn] /\ conn'[e] = c /\ conn'[Peer(e)] = conn[Peer(e)]
       /\ wire' \in [Ends -> Seq(Frames)] /\ wire'[e] = w /\ wire'[Peer(e)] = v
  BY Zenon, <1>2, <1>6, <1>a, <1>10, <1>11, <1>12
<1> QED BY ONLY SMTT(30), <1>13, Moved

-----------------------------------------------------------------------------

LEMMA WsInitInv == Init => WsInv
<1> SUFFICES ASSUME Init PROVE WsInv
  OBVIOUS
<1>1. Unborn \in Conn /\ ConnOk(Unborn)
  BY DEF Unborn, Conn, ConnOk
<1>2. conn \in [Ends -> Conn] /\ wire \in [Ends -> Seq(Frames)]
      /\ \A e \in Ends : conn[e] = Unborn /\ wire[e] = <<>>
  BY <1>1 DEF Init
<1>3. \A e \in Ends : WireOk(e)
  BY <1>2 DEF WireOk, CloseLast
<1> QED BY <1>1, <1>2, <1>3 DEF WsInv, TypeOK

(* The active end asks for a connection.                                   *)
LEMMA ConnectStep ==
  ASSUME WsInv, websock_connect
  PROVE  WsInv' /\ ToldOnce
<1> DEFINE e == "active"
           u == Unborn
           c == [u EXCEPT !.st = "CONNECTING", !.alive = TRUE, !.ref = TRUE]
<1>1. conn \in [Ends -> Conn] /\ wire \in [Ends -> Seq(Frames)] /\ "active" \in Ends
  BY DEF WsInv, TypeOK, Ends
<1>2. u \in Conn /\ u.told = 0 /\ u.tmr = "off" /\ ~u.tc
  BY DEF Unborn, Conn
<1>3. conn["active"].told = 0
  BY <1>1 DEF WsInv, ConnOk, Conn, websock_connect
<1>4. conn' = [conn EXCEPT !["active"] = c] /\ wire' = wire
  BY DEF websock_connect
<1> HIDE DEF u
<1>5. c \in Conn
  BY Zenon, <1>2 DEF Conn
<1>6. ConnOk(c) /\ c.told = 0 /\ ~c.tc /\ c.st = "CONNECTING"
  BY <1>2 DEF ConnOk, Conn
<1> HIDE DEF c
<1>7. \A d \in Ends : conn'[d] = IF d = "active" THEN c ELSE conn[d]
  BY <1>1, <1>4
<1>8. TypeOK'
  BY <1>1, <1>4, <1>5 DEF TypeOK
<1>9. ToldOnce
  BY <1>3, <1>6, <1>7 DEF ToldOnce
<1>10. ASSUME NEW d \in Ends PROVE ConnOk(conn[d])' /\ WireOk(d)'
  <2>1. ConnOk(conn[d])'
    BY <1>6, <1>7 DEF WsInv, ConnOk
  <2>2. wire'[d] = wire[d] /\ WireOk(d)
    BY <1>4 DEF WsInv
  <2>3. conn'[d].st \in Early => conn[d].st \in Early
    BY <1>7 DEF Early, websock_connect
  <2>4. ~conn'["active"].tc
    BY <1>1, <1>6, <1>7
  <2>5. WireOk(d)'
    BY <2>2, <2>3, <2>4 DEF WireOk, CloseLast
  <2> QED BY <2>1, <2>5
<1> QED BY <1>8, <1>9, <1>10 DEF WsInv

(* The passive end accepts: its answer is the first frame of its wire, and *)
(* the active end has no TCP connection yet.                               *)
LEMMA AcceptStep ==
  ASSUME WsInv, websock_accept
  PROVE  WsInv' /\ ToldOnce
<1> DEFINE u == Unborn
           c == [u EXCEPT !.st = "OPEN", !.alive = TRUE, !.ref = TRUE,
                          !.tc = TRUE, !.tmr = IF kaint THEN "ka" ELSE "off"]
           w == <<"101">>
<1>1. conn \in [Ends -> Conn] /\ wire \in [Ends -> Seq(Frames)] /\ Ends = {"active", "passive"}
  BY DEF WsInv, TypeOK, Ends
<1>2. u \in Conn /\ u.told = 0
  BY DEF Unborn, Conn
<1>3. conn["passive"].told = 0 /\ ~conn["active"].tc
  BY <1>1 DEF WsInv, ConnOk, Conn, websock_accept
<1>4. conn' = [conn EXCEPT !["passive"] = c] /\ wire' = [wire EXCEPT !["passive"] = w]
  BY DEF websock_accept
<1> HIDE DEF u
<1>5. c \in Conn
  BY Zenon, <1>2 DEF Conn
<1>6. ConnOk(c) /\ c.told = 0
  BY <1>2 DEF ConnOk, Conn
<1>7. w \in Seq(Frames) /\ Len(w) = 1 /\ w[1] = "101"
  BY DEF Frames
<1>8. CloseLast(w) /\ NoClose(w) /\ \A i \in 1..Len(w) : w[i] = "101" => i = 1
  BY <1>7 DEF CloseLast, NoClose
<1> HIDE DEF c, w
<1>9. \A d \in Ends : /\ conn'[d] = IF d = "passive" THEN c ELSE conn[d]
                      /\ wire'[d] = IF d = "passive" THEN w ELSE wire[d]
  BY <1>1, <1>4
<1>10. TypeOK'
  BY <1>1, <1>4, <1>5, <1>7 DEF TypeOK
<1>11. ToldOnce
  BY <1>3, <1>6, <1>9 DEF ToldOnce
<1>12. ~conn'["active"].tc
  BY <1>1, <1>3, <1>9
<1>13. ASSUME NEW d \in Ends PROVE ConnOk(conn[d])' /\ WireOk(d)'
  <2>1. ConnOk(conn[d])'
    BY <1>6, <1>9 DEF WsInv, ConnOk
  <2>2. CASE d = "passive"
    <3>1. /\ CloseLast(wire'[d]) /\ NoClose(wire'[d])
          /\ \A i \in 1..Len(wire'[d]) : wire'[d][i] = "101" => i = 1
      BY <1>8, <1>9, <2>2
    <3> QED BY <1>12, <2>1, <2>2, <3>1 DEF WireOk, CloseLast, NoClose
  <2>3. CASE d # "passive"
    BY <1>9, <1>12, <2>3 DEF WsInv, WireOk, CloseLast
  <2> QED BY <2>1, <2>2, <2>3
<1> QED BY <1>10, <1>11, <1>13 DEF WsInv

(* The end of a connection that is not told of it yet.                     *)
LEMMA Ending ==
  ASSUME WsInv, NEW e \in Ends, NEW b, conn[e].st \in Early <=> b, NEW drop,
         conn[e].tc \/ conn[e].tmr = "close" \/ (conn[e].st = "CONNECTING" /\ conn[e].alive),
         NEW r, r = conn_close(St(conn[e], <<>>), drop)
  PROVE  Result(r, b) /\ ~r.c.tc /\ Tells(conn[e], r.c)
<1> DEFINE s == St(conn[e], <<>>)
<1>1. conn[e] \in Conn /\ ConnOk(conn[e]) /\ Result(s, b) /\ s.c = conn[e]
  BY EndFacts
<1>2. conn[e].told = 0 /\ conn[e].alive
  BY <1>1, NotTold DEF ConnOk
<1>3. r = conn_close(s, drop)
  OBVIOUS
<1> HIDE DEF s
<1>4. Partial(s, b)
  BY <1>1 DEF Result
<1>5. Result(r, b) /\ ~r.c.tc /\ (r.c.told # 0 => conn[e].ref)
  BY <1>1, <1>2, <1>3, <1>4, EndResult
<1> QED BY <1>2, <1>5 DEF Tells

(* The request of an active end that is not connected is dropped.          *)
LEMMA FinStep ==
  ASSUME WsInv, NEW e \in Ends, NEW b, NEW r, Result(r, b), ~r.c.tc, Tells(conn[e], r.c),
         conn' = [conn EXCEPT ![e] = r.c],
         wire' = [wire EXCEPT ![e] = <<"fin">>]
  PROVE  WsInv' /\ ToldOnce
<1> DEFINE w == <<"fin">>
           v == wire[Peer(e)]
           c == r.c
           a == conn'["active"].tc
<1>0. /\ conn \in [Ends -> Conn] /\ wire \in [Ends -> Seq(Frames)]
      /\ Peer(e) \in Ends /\ Peer(e) # e /\ c \in Conn /\ ConnOk(c)
  BY DEF WsInv, TypeOK, Peer, Ends, Result, Partial
<1>1. w \in Seq(Frames) /\ Len(w) = 1 /\ w[1] = "fin"
  BY DEF Frames
<1>2. /\ conn' \in [Ends -> Conn] /\ conn'[e] = c /\ conn'[Peer(e)] = conn[Peer(e)]
      /\ wire' \in [Ends -> Seq(Frames)] /\ wire'[e] = w /\ wire'[Peer(e)] = v
  BY <1>0, <1>1
<1> HIDE DEF w
<1>3. Behind(w, e, c, a)
  BY <1>1 DEF Behind, CloseLast, NoClose
<1>4. ~conn["active"].tc => ~a
  BY <1>0 DEF Ends
<1>5. Behind(v, Peer(e), conn[Peer(e)], a)
  <2>1. WireOk(Peer(e)) /\ v \in Seq(Frames)
    BY SMTT(30), <1>0 DEF WsInv
  <2> QED BY <1>4, <2>1 DEF WireOk, Behind, NoClose
<1> HIDE DEF a, c, v
<1>6. /\ WsInv /\ e \in Ends /\ c \in Conn /\ ConnOk(c) /\ Tells(conn[e], c)
      /\ a = conn'["active"].tc /\ Behind(w, e, c, a) /\ Behind(v, Peer(e), conn[Peer(e)], a)
      /\ conn' \in [Ends -> Conn] /\ conn'[e] = c /\ conn'[Peer(e)] = conn[Peer(e)]
      /\ wire' \in [Ends -> Seq(Frames)] /\ wire'[e] = w /\ wire'[Peer(e)] = v
  BY <1>0, <1>2, <1>3, <1>5 DEF a, c
<1> QED BY ONLY SMTT(30), <1>6, Moved

(* The answer arrives, or the attempt fails.                               *)
LEMMA AnswerStep ==
  ASSUME WsInv, http_resp_handler
  PROVE  WsInv' /\ ToldOnce
<1> DEFINE e == "active"
           c == conn[e]
           u == wire["passive"]
<1>0. /\ conn \in [Ends -> Conn] /\ wire \in [Ends -> Seq(Frames)] /\ Ends = {"active", "passive"}
      /\ Peer("active") = "passive" /\ c.st = "CONNECTING" /\ c.alive
      /\ c \in Conn /\ ConnOk(c) /\ u \in Seq(Frames)
  BY DEF WsInv, TypeOK, Ends, Peer, http_resp_handler
<1>1. /\ CloseLast(u) /\ (conn["passive"].st \in Early => NoClose(u))
      /\ \A i \in 1..Len(u) : u[i] = "101" => i = 1
  BY <1>0 DEF WsInv, WireOk, NoClose
<1>2. /\ wire[e] \in Seq(Frames) /\ CloseLast(wire[e]) /\ NoClose(wire[e])
      /\ \A i \in 1..Len(wire[e]) : wire[e][i] # "101"
  BY <1>0 DEF WsInv, WireOk, Early, NoClose
<1>3. c.told = 0 /\ ~c.tc
  BY <1>0 DEF ConnOk, Conn
<1>4. CASE /\ u # <<>>
           /\ conn' = [conn EXCEPT ![e].st = "OPEN", ![e].tc = TRUE,
                                   ![e].tmr = IF kaint THEN "ka" ELSE "off"]
           /\ wire' = [wire EXCEPT !["passive"] = Tail(@)]
  <2> DEFINE d == [c EXCEPT !.st = "OPEN", !.tc = TRUE, !.tmr = IF kaint THEN "ka" ELSE "off"]
             v == Tail(u)
             w == wire[e]
  <2>1. d \in Conn
    BY Zenon, <1>0 DEF Conn
  <2>2. ConnOk(d) /\ d.told = 0
    BY <1>0, <1>3 DEF ConnOk, Conn
  <2>3. /\ conn' \in [Ends -> Conn] /\ conn'[e] = d /\ conn'["passive"] = conn["passive"]
    BY <1>0, <1>4, <2>1
  <2>4. wire'[e] = w /\ wire'["passive"] = v
    BY <1>0, <1>4
  <2> HIDE DEF u
  <2>5. /\ v \in Seq(Frames) /\ CloseLast(v) /\ (NoClose(u) => NoClose(v))
        /\ \A i \in 1..Len(v) : i + 1 \in 1..Len(u) /\ v[i] = u[i + 1]
    BY <1>0, <1>1, <1>4, Shortened
  <2>6. wire' \in [Ends -> Seq(Frames)]
    BY <1>0, <1>4, <2>5 DEF u
  <2> HIDE DEF v, d, c
  <2>7. \A i \in 1..Len(v) : v[i] # "101"
    <3> SUFFICES ASSUME NEW i \in 1..Len(v), v[i] = "101" PROVE FALSE
      OBVIOUS
    <3>1. i + 1 = 1
      BY <1>1, <2>5
    <3> QED BY <3>1
  <2> DEFINE a == conn'["active"].tc
  <2>8. Behind(v, "passive", conn["passive"], a)
    BY <1>1, <2>5, <2>7 DEF Behind
  <2>9. Behind(w, e, d, a)
    BY <1>0, <1>2 DEF Behind, NoClose
  <2>10. Tells(conn[e], d)
    BY <1>3, <2>2 DEF Tells, c
  <2> HIDE DEF a, w
  <2>11. /\ WsInv /\ "active" \in Ends /\ d \in Conn /\ ConnOk(d) /\ Tells(conn["active"], d)
         /\ a = conn'["active"].tc /\ Behind(w, "active", d, a)
         /\ Behind(v, Peer("active"), conn[Peer("active")], a)
         /\ conn' \in [Ends -> Conn] /\ conn'["active"] = d
         /\ conn'[Peer("active")] = conn[Peer("active")]
         /\ wire' \in [Ends -> Seq(Frames)] /\ wire'["active"] = w /\ wire'[Peer("active")] = v
    BY <1>0, <2>1, <2>2, <2>3, <2>4, <2>6, <2>8, <2>9, <2>10 DEF a
  <2> QED BY ONLY <2>11, Moved
<1>5. ASSUME NEW drop, NEW r, r = conn_close(St(conn["active"], <<>>), drop),
             conn' = [conn EXCEPT !["active"] = r.c],
             wire' = [wire EXCEPT !["active"] = <<"fin">>]
      PROVE  WsInv' /\ ToldOnce
  <2>1. Result(r, TRUE) /\ ~r.c.tc /\ Tells(conn["active"], r.c)
    BY Zenon, <1>0, <1>5, Ending DEF Early
  <2> QED BY Zenon, <1>0, <1>5, <2>1, FinStep
<1> QED BY <1>4, <1>5 DEF http_resp_handler

(* recv_handler reads one frame; it may be the end of TCP.                 *)
LEMMA ReceiveStep ==
  ASSUME WsInv, NEW e \in Ends, Receive(e)
  PROVE  WsInv' /\ ToldOnce
<1> DEFINE b == conn[e].st \in Early
           s == St(conn[e], <<>>)
           u == wire[Peer(e)]
           f == Head(u)
<1>0. /\ conn[e] \in Conn /\ ConnOk(conn[e]) /\ Peer(e) \in Ends /\ conn[e].tc
      /\ u \in Seq(Frames) /\ u # <<>> /\ WireOk(Peer(e))
  BY DEF WsInv, TypeOK, Peer, Ends, Receive
<1>1. b <=> conn[e].st \in Early
  OBVIOUS
<1>2. Result(s, b) /\ s.c = conn[e]
  <2> HIDE DEF b
  <2> QED BY <1>1, EndFacts
<1>3. f \in Sent
  <2>1. f \in Frames /\ f = u[1] /\ 1 \in 1..Len(u)
    BY <1>0
  <2>2. f # "101"
    <3> SUFFICES ASSUME f = "101" PROVE FALSE
      OBVIOUS
    <3>1. Peer(e) = "passive" /\ ~conn["active"].tc
      BY <1>0, <2>1 DEF WireOk
    <3>2. e = "active"
      BY <3>1 DEF Peer, Ends
    <3> QED BY <1>0, <3>1, <3>2
  <2> QED BY <2>1, <2>2 DEF Sent
<1>4. PICK acts, drop, ok :
        LET r == IF f = "fin" THEN conn_close(s, drop)
                 ELSE recv_handler(s, f, acts, drop, ok)
        IN  /\ conn' = [conn EXCEPT ![e] = r.c]
            /\ wire' = [wire EXCEPT ![Peer(e)] = Tail(@), ![e] = Put(e, r)]
  BY Zenon DEF Receive
<1> DEFINE r == IF f = "fin" THEN conn_close(s, drop)
                ELSE recv_handler(s, f, acts, drop, ok)
<1>5. /\ conn' = [conn EXCEPT ![e] = r.c]
      /\ wire' = [wire EXCEPT ![Peer(e)] = Tail(@), ![e] = Put(e, r)]
  BY <1>4
<1>6. Result(r, b) /\ Tells(conn[e], r.c)
  <2>1. CASE f = "fin"
    <3>1. r = conn_close(St(conn[e], <<>>), drop)
      BY <2>1
    <3> HIDE DEF b, r
    <3> QED BY Zenon, <1>0, <1>1, <3>1, Ending
  <2>2. CASE f # "fin"
    <3>1. r = recv_handler(s, f, acts, drop, ok)
      BY <2>2
    <3> HIDE DEF b, s, f, r
    <3>2. Result(s, b) /\ f \in Sent /\ f # "fin" /\ s.c.tc
      BY <1>0, <1>2, <1>3, <2>2
    <3>3. /\ Result(recv_handler(s, f, acts, drop, ok), b)
          /\ Tells(s.c, recv_handler(s, f, acts, drop, ok).c)
      BY <3>2, ReceivedResult
    <3> QED BY <1>2, <3>1, <3>3
  <2> QED BY <2>1, <2>2
<1> HIDE DEF b, r, s, f
<1>7. u # <<>> /\ conn[e].tc
  BY <1>0
<1>8. /\ WsInv /\ e \in Ends /\ (b => conn[e].st \in Early)
      /\ Result(r, b) /\ Tells(conn[e], r.c) /\ (r.c.tc => conn[e].tc)
      /\ wire[Peer(e)] # <<>>
      /\ conn' = [conn EXCEPT ![e] = r.c]
      /\ wire' = [wire EXCEPT ![Peer(e)] = Tail(@), ![e] = Put(e, r)]
  BY <1>1, <1>5, <1>6, <1>7
<1> QED BY ONLY Zenon, <1>8, ReadAndHandled

(* TCP reports an error; the timer of an end without owner runs out.       *)
LEMMA EndStep ==
  ASSUME WsInv, NEW e \in Ends, close_handler(e) \/ timeout_handler(e)
  PROVE  WsInv' /\ ToldOnce
<1> DEFINE b == conn[e].st \in Early
<1>1. b <=> conn[e].st \in Early
  OBVIOUS
<1>2. PICK drop : LET r == conn_close(St(conn[e], <<>>), drop) IN
        /\ conn' = [conn EXCEPT ![e] = r.c]
        /\ wire' = [wire EXCEPT ![e] = Put(e, r)]
  BY Zenon DEF close_handler, timeout_handler
<1>3. conn[e].tc \/ conn[e].tmr = "close"
  BY Zenon DEF close_handler, timeout_handler
<1> DEFINE r == conn_close(St(conn[e], <<>>), drop)
<1>4. r = conn_close(St(conn[e], <<>>), drop)
  OBVIOUS
<1>5. conn' = [conn EXCEPT ![e] = r.c] /\ wire' = [wire EXCEPT ![e] = Put(e, r)]
  BY <1>2
<1> HIDE DEF b, r
<1>6. Result(r, b) /\ ~r.c.tc /\ Tells(conn[e], r.c)
  BY Zenon, <1>1, <1>3, <1>4, Ending
<1>7. /\ WsInv /\ e \in Ends /\ (b => conn[e].st \in Early)
      /\ Result(r, b) /\ Tells(conn[e], r.c) /\ (r.c.tc => conn[e].tc)
      /\ conn' = [conn EXCEPT ![e] = r.c]
      /\ wire' = [wire EXCEPT ![e] = Put(e, r)]
  BY <1>1, <1>5, <1>6
<1> QED BY ONLY Zenon, <1>7, Handled

(* The owner sends, closes or lets go.                                     *)
LEMMA OwnerStep ==
  ASSUME WsInv, NEW e \in Ends, websock_send(e) \/ Close(e) \/ Drop(e)
  PROVE  WsInv' /\ ToldOnce
<1> DEFINE b == conn[e].st \in Early
           s == St(conn[e], <<>>)
<1>0. conn[e] \in Conn /\ ConnOk(conn[e]) /\ conn[e].alive
  BY DEF WsInv, TypeOK, websock_send, Close, Drop, Act
<1>1. b <=> conn[e].st \in Early
  OBVIOUS
<1>2. Result(s, b) /\ s.c = conn[e]
  <2> HIDE DEF b
  <2> QED BY SMTT(30), <1>1, EndFacts
<1>3. PICK ok : \E r :
        /\ \/ conn[e].st = "OPEN" /\ r = websock_vsend(s, "data", ok)
           \/ conn[e].st = "OPEN" /\ r = websock_close(s, ok)
           \/ r = conn_destructor(s, ok)
        /\ conn' = [conn EXCEPT ![e] = r.c]
        /\ wire' = [wire EXCEPT ![e] = IF conn[e].st = "CONNECTING" THEN <<"fin">>
                                       ELSE Put(e, r)]
  BY Zenon DEF websock_send, Close, Drop, Act
<1>4. PICK r :
        /\ \/ conn[e].st = "OPEN" /\ r = websock_vsend(s, "data", ok)
           \/ conn[e].st = "OPEN" /\ r = websock_close(s, ok)
           \/ r = conn_destructor(s, ok)
        /\ conn' = [conn EXCEPT ![e] = r.c]
        /\ wire' = [wire EXCEPT ![e] = IF conn[e].st = "CONNECTING" THEN <<"fin">>
                                       ELSE Put(e, r)]
  BY Zenon, <1>3
<1> HIDE DEF b, s
<1>5. CASE conn[e].st = "OPEN" /\ r = websock_vsend(s, "data", ok)
  <2>1. "data" \in Sent /\ "data" # "fin" /\ "data" # "close"
    BY DEF Sent, Frames
  <2>2. Result(websock_vsend(s, "data", ok), b) /\ websock_vsend(s, "data", ok).c = s.c
    BY <1>2, <2>1, SendResult
  <2>3. Result(r, b) /\ r.c = conn[e]
    BY <1>2, <1>5, <2>2
  <2>4. /\ WsInv /\ e \in Ends /\ (b => conn[e].st \in Early)
        /\ Result(r, b) /\ Tells(conn[e], r.c) /\ (r.c.tc => conn[e].tc)
        /\ conn' = [conn EXCEPT ![e] = r.c]
        /\ wire' = [wire EXCEPT ![e] = Put(e, r)]
    BY <1>1, <1>4, <1>5, <2>3 DEF Tells
  <2> QED BY ONLY Zenon, <2>4, Handled
<1>6. CASE conn[e].st = "OPEN" /\ r = websock_close(s, ok)
  <2>1. Result(websock_close(s, ok), b)
    BY <1>2, CloseResult
  <2>2. websock_close(s, ok).c.tc = s.c.tc
    BY <1>2, CloseResult
  <2>3. Result(r, b) /\ r.c.tc = conn[e].tc
    BY <1>2, <1>6, <2>1, <2>2
  <2>4. r.c.told = s.c.told
    BY SMTT(30), <1>6 DEF websock_close, websock_vsend, St
  <2>5. /\ WsInv /\ e \in Ends /\ (b => conn[e].st \in Early)
        /\ Result(r, b) /\ Tells(conn[e], r.c) /\ (r.c.tc => conn[e].tc)
        /\ conn' = [conn EXCEPT ![e] = r.c]
        /\ wire' = [wire EXCEPT ![e] = Put(e, r)]
    BY SMTT(30), <1>1, <1>2, <1>4, <1>6, <2>3, <2>4 DEF Tells
  <2> QED BY ONLY ZenonT(30), <2>5, Handled
<1>7. CASE r = conn_destructor(s, ok)
  <2>1. Result(conn_destructor(s, ok), b) /\ conn_destructor(s, ok).c.told = s.c.told
    BY SMTT(30), <1>0, <1>2, DestructorResult
  <2>2. Result(r, b) /\ Tells(conn[e], r.c)
    BY <1>2, <1>7, <2>1 DEF Tells
  <2>3. r.c.tc => conn[e].tc
    <3>1. r.c.tc => s.c.tc
      BY <1>7 DEF conn_destructor, websock_close, websock_vsend, Free, DropTcp, St
    <3> QED BY SMTT(30), <1>2, <3>1
  <2>4. CASE conn[e].st = "CONNECTING"
    <3>1. ~r.c.tc
      BY <1>0, <2>3, <2>4 DEF ConnOk
    <3>2. /\ WsInv /\ e \in Ends /\ Result(r, b) /\ ~r.c.tc /\ Tells(conn[e], r.c)
          /\ conn' = [conn EXCEPT ![e] = r.c] /\ wire' = [wire EXCEPT ![e] = <<"fin">>]
      BY <1>4, <2>2, <2>4, <3>1
    <3> QED BY ONLY Zenon, <3>2, FinStep
  <2>5. CASE conn[e].st # "CONNECTING"
    <3>1. /\ WsInv /\ e \in Ends /\ (b => conn[e].st \in Early)
          /\ Result(r, b) /\ Tells(conn[e], r.c) /\ (r.c.tc => conn[e].tc)
          /\ conn' = [conn EXCEPT ![e] = r.c]
          /\ wire' = [wire EXCEPT ![e] = Put(e, r)]
      BY <1>1, <1>4, <2>2, <2>3, <2>5
    <3> QED BY ONLY Zenon, <3>1, Handled
  <2> QED BY SMTT(30), <2>4, <2>5
<1> QED BY <1>4, <1>5, <1>6, <1>7

LEMMA KeepaliveStep ==
  ASSUME WsInv, NEW e \in Ends, keepalive_handler(e)
  PROVE  WsInv' /\ ToldOnce
<1> DEFINE b == conn[e].st \in Early
           s == St(conn[e], <<>>)
<1>0. conn \in [Ends -> Conn]
  BY DEF WsInv, TypeOK
<1>1. b <=> conn[e].st \in Early
  OBVIOUS
<1>2. Result(s, b) /\ s.c = conn[e]
  <2> HIDE DEF b
  <2> QED BY <1>1, EndFacts
<1>3. PICK ok : wire' = [wire EXCEPT ![e] = Put(e, websock_vsend(s, "ping", ok))]
  BY Zenon DEF keepalive_handler
<1> DEFINE r == websock_vsend(s, "ping", ok)
<1> HIDE DEF b, s
<1>4. "ping" \in Sent /\ "ping" # "fin" /\ "ping" # "close"
  BY DEF Sent, Frames
<1>5. Result(r, b) /\ r.c = s.c
  BY <1>2, <1>4, SendResult
<1>6. wire' = [wire EXCEPT ![e] = Put(e, r)]
  BY <1>3
<1> HIDE DEF r
<1>7. conn' = [conn EXCEPT ![e] = r.c]
  BY <1>0, <1>2, <1>5 DEF keepalive_handler
<1>8. /\ WsInv /\ e \in Ends /\ (b => conn[e].st \in Early)
      /\ Result(r, b) /\ Tells(conn[e], r.c) /\ (r.c.tc => conn[e].tc)
      /\ conn' = [conn EXCEPT ![e] = r.c]
      /\ wire' = [wire EXCEPT ![e] = Put(e, r)]
  BY <1>1, <1>2, <1>5, <1>6, <1>7 DEF Tells
<1> QED BY ONLY Zenon, <1>8, Handled

(* The other end of a step of end e that reads nothing and gets no TCP.    *)
LEMMA Untouched ==
  ASSUME WsInv, NEW e \in Ends, NEW c, conn' = [conn EXCEPT ![e] = c],
         c.tc => conn[e].tc
  PROVE  Behind(wire[Peer(e)], Peer(e), conn[Peer(e)], conn'["active"].tc)
<1>1. /\ conn \in [Ends -> Conn] /\ wire \in [Ends -> Seq(Frames)]
      /\ Peer(e) \in Ends /\ WireOk(Peer(e))
  BY DEF WsInv, TypeOK, Peer, Ends
<1>2. ~conn["active"].tc => ~conn'["active"].tc
  BY <1>1 DEF Ends
<1> QED BY <1>1, <1>2 DEF Behind, WireOk, NoClose

LEMMA BadFrameStep ==
  ASSUME WsInv, NEW e \in Ends, BadFrame(e)
  PROVE  WsInv' /\ ToldOnce
<1> DEFINE c == conn[e]
           u == wire[e]
           w == Append(u, "bad")
           v == wire[Peer(e)]
           a == conn'["active"].tc
<1>0. /\ conn \in [Ends -> Conn] /\ wire \in [Ends -> Seq(Frames)]
      /\ Peer(e) \in Ends /\ Peer(e) # e /\ c \in Conn /\ ConnOk(c) /\ WireOk(e)
      /\ u \in Seq(Frames) /\ c.st = "OPEN"
  BY DEF WsInv, TypeOK, Peer, Ends, BadFrame
<1>1. conn' = conn /\ wire' = [wire EXCEPT ![e] = w]
  BY DEF BadFrame
<1>2. NoClose(u) /\ \A i \in 1..Len(u) :
        u[i] = "101" => e = "passive" /\ i = 1 /\ ~conn["active"].tc
  BY <1>0 DEF WireOk, NoClose, Early
<1>3. /\ w \in Seq(Frames) /\ Len(w) = Len(u) + 1 /\ Len(u) \in Nat
      /\ w[Len(u) + 1] = "bad" /\ \A i \in 1..Len(u) : w[i] = u[i]
  BY <1>0 DEF Frames
<1>4. /\ conn' \in [Ends -> Conn] /\ conn'[e] = c /\ conn'[Peer(e)] = conn[Peer(e)]
      /\ wire' \in [Ends -> Seq(Frames)] /\ wire'[e] = w /\ wire'[Peer(e)] = v
  BY <1>0, <1>1, <1>3
<1>5. conn' = [conn EXCEPT ![e] = c]
  BY <1>0, <1>1
<1>6. Behind(v, Peer(e), conn[Peer(e)], a)
  <2> HIDE DEF c
  <2> QED BY Zenon, <1>5, Untouched DEF c
<1> HIDE DEF u, w
<1>7. \A i \in 1..Len(w) : i \in 1..Len(u) \/ i = Len(u) + 1
  BY <1>3
<1>8. NoClose(w)
  BY <1>2, <1>3, <1>7 DEF NoClose
<1>9. \A i \in 1..Len(w) : w[i] = "101" => e = "passive" /\ i = 1 /\ ~a
  BY <1>1, <1>2, <1>3, <1>7
<1>10. Behind(w, e, c, a)
  BY <1>3, <1>8, <1>9 DEF Behind, CloseLast, NoClose
<1> HIDE DEF a, c, v
<1>11. /\ WsInv /\ e \in Ends /\ c \in Conn /\ ConnOk(c) /\ Tells(conn[e], c)
       /\ a = conn'["active"].tc /\ Behind(w, e, c, a) /\ Behind(v, Peer(e), conn[Peer(e)], a)
       /\ conn' \in [Ends -> Conn] /\ conn'[e] = c /\ conn'[Peer(e)] = conn[Peer(e)]
       /\ wire' \in [Ends -> Seq(Frames)] /\ wire'[e] = w /\ wire'[Peer(e)] = v
  BY <1>0, <1>4, <1>6, <1>10 DEF a, c, Tells
<1> QED BY ONLY SMTT(30), <1>11, Moved

LEMMA VanishStep ==
  ASSUME WsInv, NEW e \in Ends, Vanish(e)
  PROVE  WsInv' /\ ToldOnce
<1> DEFINE o == Unborn
           c == [o EXCEPT !.st = "CLOSED"]
           w == <<>>
           v == wire[Peer(e)]
           a == conn'["active"].tc
<1>0. /\ conn \in [Ends -> Conn] /\ wire \in [Ends -> Seq(Frames)]
      /\ Peer(e) \in Ends /\ Peer(e) # e /\ conn[e].told = 0
  BY NotTold DEF WsInv, TypeOK, Peer, Ends, Vanish
<1>1. o \in Conn /\ ~o.tc /\ o.told = 0 /\ o.tmr = "off" /\ ~o.alive /\ ~o.ref
  BY DEF Unborn, Conn
<1>2. conn' = [conn EXCEPT ![e] = c] /\ wire' = [wire EXCEPT ![e] = w]
  BY DEF Vanish
<1> HIDE DEF o
<1>3. c \in Conn
  BY <1>1 DEF Conn
<1>4. ConnOk(c) /\ c.told = 0 /\ ~c.tc
  BY <1>1 DEF ConnOk, Conn
<1> HIDE DEF c
<1>5. w \in Seq(Frames) /\ Len(w) = 0
  OBVIOUS
<1>6. /\ conn' \in [Ends -> Conn] /\ conn'[e] = c /\ conn'[Peer(e)] = conn[Peer(e)]
      /\ wire' \in [Ends -> Seq(Frames)] /\ wire'[e] = w /\ wire'[Peer(e)] = v
  BY <1>0, <1>2, <1>3, <1>5
<1>7. Behind(v, Peer(e), conn[Peer(e)], a)
  BY Zenon, <1>2, <1>4, Untouched
<1> HIDE DEF w
<1>8. Behind(w, e, c, a)
  BY <1>5 DEF Behind, CloseLast, NoClose
<1> HIDE DEF a, v
<1>9. /\ WsInv /\ e \in Ends /\ c \in Conn /\ ConnOk(c) /\ Tells(conn[e], c)
      /\ a = conn'["active"].tc /\ Behind(w, e, c, a) /\ Behind(v, Peer(e), conn[Peer(e)], a)
      /\ conn' \in [Ends -> Conn] /\ conn'[e] = c /\ conn'[Peer(e)] = conn[Peer(e)]
      /\ wire' \in [Ends -> Seq(Frames)] /\ wire'[e] = w /\ wire'[Peer(e)] = v
  BY <1>0, <1>3, <1>4, <1>6, <1>7, <1>8 DEF a, Tells
<1> QED BY ONLY SMTT(30), <1>9, Moved

LEMMA WsStep == WsInv /\ [Next]_vars => WsInv' /\ ToldOnce
<1> SUFFICES ASSUME WsInv, [Next]_vars PROVE WsInv' /\ ToldOnce
  OBVIOUS
<1>1. CASE UNCHANGED vars
  BY <1>1 DEF vars, WsInv, TypeOK, ConnOk, WireOk, CloseLast, ToldOnce
<1>2. CASE websock_connect
  BY <1>2, ConnectStep
<1>3. CASE websock_accept
  BY <1>3, AcceptStep
<1>4. CASE http_resp_handler
  BY <1>4, AnswerStep
<1>5. ASSUME NEW e \in Ends, Receive(e) PROVE WsInv' /\ ToldOnce
  BY <1>5, ReceiveStep
<1>6. ASSUME NEW e \in Ends, close_handler(e) \/ timeout_handler(e) PROVE WsInv' /\ ToldOnce
  BY <1>6, EndStep
<1>7. ASSUME NEW e \in Ends, websock_send(e) \/ Close(e) \/ Drop(e) PROVE WsInv' /\ ToldOnce
  BY <1>7, OwnerStep
<1>8. ASSUME NEW e \in Ends, keepalive_handler(e) PROVE WsInv' /\ ToldOnce
  BY <1>8, KeepaliveStep
<1>9. ASSUME NEW e \in Ends, BadFrame(e) PROVE WsInv' /\ ToldOnce
  BY <1>9, BadFrameStep
<1>10. ASSUME NEW e \in Ends, Vanish(e) PROVE WsInv' /\ ToldOnce
  BY <1>10, VanishStep
<1> QED BY <1>1, <1>2, <1>3, <1>4, <1>5, <1>6, <1>7, <1>8, <1>9, <1>10 DEF Next, Done

(* What websock.c keeps of a connection and of what it has sent, whoever   *)
(* closes first, lets go, fails to send or disappears.                     *)
THEOREM WebsockInvariant == Spec => []WsInv
<1>1. WsInv /\ [Next]_vars => WsInv'
  BY WsStep
<1> QED BY <1>1, WsInitInv, PTL DEF Spec

(* Nothing runs on a freed connection, one without owner is closing under  *)
(* a timer, and the close frame is the last of its end (conn_destructor,   *)
(* conn_close, websock_vsend).                                             *)
THEOREM SocketSafe == Spec => []SocketKept
<1>1. WsInv => SocketKept
  BY DEF WsInv, ConnOk, WireOk, SocketKept, NothingLeft, CloseIsLast
<1> QED BY <1>1, WebsockInvariant, PTL

(* The owner hears of the end of its connection at most once, while it     *)
(* holds its reference, and has no TCP connection any more then            *)
(* (conn_close, and internal_close_handler for one without owner).         *)
THEOREM OwnerToldOnce == Spec => [][ToldOnce]_vars
<1>1. WsInv /\ [Next]_vars => [ToldOnce]_vars
  BY WsStep
<1> QED BY <1>1, WebsockInvariant, PTL DEF Spec
=============================================================================
