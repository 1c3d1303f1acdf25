--------------------------- MODULE NetSendProofs ---------------------------
(***************************************************************************)
(* Sending to a socket that does not take everything at once: for any size *)
(* of the socket's buffer, any answers and any limit of the send buffer,   *)
(* the buffer fits, the bytes stay in order, and no byte waits unwatched.  *)
(***************************************************************************)
EXTENDS NetSend, SequenceTheorems, TLAPS

(***************************************************************************)
(* The inductive invariant.                                                *)
(***************************************************************************)
TypeOK ==
  /\ is_parent \in BOOLEAN /\ limit \in Nat
  /\ at \in {"turn", "wait", "work", "data", "arm"} /\ conn \in {"open", "closed"}
  /\ closing \in BOOLEAN /\ armed \in BOOLEAN /\ prev \in BOOLEAN
  /\ edge \in BOOLEAN /\ reset \in BOOLEAN /\ ready \in {"none", "out", "hup"}
  /\ bufsz \in Nat /\ want \in Nat /\ total \in Nat
  /\ buf \in Seq(Nat) /\ sock \in Seq(Nat) /\ rcvd \in Seq(Nat)
  /\ Len(sock) <= Cap

(* The bytes of s are the ones after a, in order. *)
After(s, a) == \A k \in DOMAIN s : s[k] = a + k

StreamInv ==
  /\ ~reset => After(rcvd, 0) /\ After(sock, Len(rcvd))
  /\ conn = "open" /\ ~reset =>
       /\ After(buf, Len(rcvd) + Len(sock))
       /\ total = Len(rcvd) + Len(sock) + Len(buf)

(* Where net_loop is, and what it then knows of the connection. *)
LoopInv ==
  /\ at \in {"data", "arm"} => conn = "open"
  /\ conn = "closed" => buf = <<>> /\ ~armed /\ ~closing
  /\ at \in {"turn", "wait"} => ready = "none"
  /\ ready = "hup" => reset
  /\ at = "data" => want \in Lens /\ (~prev => buf = <<>>)
  /\ at = "arm" => (prev => buf = <<>>)

(* EPOLLOUT is armed while bytes are buffered, but for the time in which   *)
(* net_send is about to arm it; and the event is not lost.                 *)
WatchInv ==
  /\ NoLimit /\ conn = "open" /\ at \notin {"data", "arm"} /\ buf # <<>> => armed
  /\ NoLimit /\ at = "data" /\ prev => armed
  /\ armed /\ at # "arm" /\ buf # <<>> /\ Len(sock) < Cap => edge \/ ready # "none"

SendInv == TypeOK /\ BufferFits /\ StreamInv /\ LoopInv /\ WatchInv
-----------------------------------------------------------------------------
USE DEF given

LEMMA MinOfTwo ==
  ASSUME NEW a \in Int, NEW b \in Int
  PROVE  Min({a, b}) = IF a <= b THEN a ELSE b
<1>1. PICK m \in {a, b} : \A y \in {a, b} : m <= y
  OBVIOUS
<1>2. /\ Min({a, b}) \in {a, b}
      /\ \A y \in {a, b} : Min({a, b}) <= y
  BY <1>1 DEF Min
<1> QED
  BY <1>2

(* What is taken from the start of t and put behind s. *)
LEMMA Moved ==
  ASSUME NEW s \in Seq(Nat), NEW t \in Seq(Nat), NEW n \in 0 .. Len(t)
  PROVE  /\ s \o SubSeq(t, 1, n) \in Seq(Nat) /\ Drop(t, n) \in Seq(Nat)
         /\ Len(s \o SubSeq(t, 1, n)) = Len(s) + n
         /\ Len(Drop(t, n)) = Len(t) - n
         /\ \A a \in Nat : After(s, a) /\ After(t, a + Len(s)) =>
              /\ After(s \o SubSeq(t, 1, n), a)
              /\ After(Drop(t, n), a + Len(s) + n)
<1> DEFINE u == SubSeq(t, 1, n)
           d == Drop(t, n)
<1>1. /\ u \in Seq(Nat) /\ Len(u) = n /\ \A i \in 1 .. n : u[i] = t[i]
  BY SubSeqProperties
<1>2. /\ d \in Seq(Nat) /\ Len(d) = Len(t) - n
      /\ \A i \in 1 .. Len(d) : d[i] = t[n + i] /\ n + i \in 1 .. Len(t)
  <2>1. \A i \in n + 1 .. Len(t) : t[i] \in Nat
    OBVIOUS
  <2>2. /\ d \in Seq(Nat) /\ Len(d) = Len(t) - n
        /\ \A i \in 1 .. Len(t) - n : d[i] = t[(n + 1) + i - 1]
    BY <2>1, SubSeqProperties DEF Drop
  <2> QED
    BY <2>2
<1> HIDE DEF u, d
<1>3. /\ s \o u \in Seq(Nat) /\ Len(s \o u) = Len(s) + n
      /\ \A i \in 1 .. Len(s) + n :
           (s \o u)[i] = IF i <= Len(s) THEN s[i] ELSE u[i - Len(s)]
  BY <1>1, ConcatProperties
<1>4. ASSUME NEW a \in Nat, After(s, a), After(t, a + Len(s))
      PROVE  After(s \o u, a) /\ After(d, a + Len(s) + n)
  <2>1. /\ \A k \in 1 .. Len(s) : s[k] = a + k
        /\ \A k \in 1 .. Len(t) : t[k] = (a + Len(s)) + k
    BY <1>4 DEF After
  <2>2. \A k \in 1 .. Len(s) + n : (s \o u)[k] = a + k
    <3> SUFFICES ASSUME NEW k \in 1 .. Len(s) + n PROVE (s \o u)[k] = a + k
      OBVIOUS
    <3>1. CASE k <= Len(s)
      BY <1>3, <2>1, <3>1
    <3>2. CASE ~(k <= Len(s))
      <4>1. k - Len(s) \in 1 .. n /\ k - Len(s) \in 1 .. Len(t)
        BY <3>2
      <4>2. (s \o u)[k] = t[k - Len(s)]
        BY <1>1, <1>3, <3>2, <4>1
      <4> QED
        BY <2>1, <4>1, <4>2
    <3> QED
      BY <3>1, <3>2
  <2>3. \A k \in 1 .. Len(d) : d[k] = (a + Len(s) + n) + k
    BY <1>2, <2>1
  <2>4. DOMAIN (s \o u) = 1 .. Len(s) + n /\ DOMAIN d = 1 .. Len(d)
    BY <1>2, <1>3
  <2> QED
    BY <2>2, <2>3, <2>4 DEF After
<1> QED
  BY <1>2, <1>3, <1>4 DEF u, d

LEMMA Joined ==
  ASSUME NEW s \in Seq(Nat), NEW t \in Seq(Nat), After(s, 0), After(t, Len(s))
  PROVE  s \o t \in Seq(Nat) /\ Len(s \o t) = Len(s) + Len(t) /\ After(s \o t, 0)
<1> DEFINE n == Len(t)
<1>1. n \in 0 .. Len(t) /\ SubSeq(t, 1, n) = t /\ 0 + Len(s) = Len(s)
  OBVIOUS
<1> HIDE DEF n
<1>2. /\ s \o SubSeq(t, 1, n) \in Seq(Nat)
      /\ Len(s \o SubSeq(t, 1, n)) = Len(s) + n
      /\ After(s, 0) /\ After(t, 0 + Len(s)) => After(s \o SubSeq(t, 1, n), 0)
  <2>1. 0 \in Nat
    OBVIOUS
  <2> QED
    BY <1>1, <2>1, Moved, Zenon
<1> QED
  BY <1>1, <1>2, Zenon DEF n

LEMMA BytesFacts ==
  ASSUME NEW a \in Nat, NEW b \in Nat, a <= b
  PROVE  Bytes(a, b) \in Seq(Nat) /\ Len(Bytes(a, b)) = b - a /\ After(Bytes(a, b), a)
<1>1. Bytes(a, b) \in [1 .. b - a -> Nat] /\ b - a \in Nat
  BY DEF Bytes
<1>2. Bytes(a, b) \in Seq(Nat) /\ Len(Bytes(a, b)) = b - a
  BY <1>1
<1> QED
  BY <1>2 DEF Bytes, After

(* Bytes that are put behind others. *)
LEMMA Appended ==
  ASSUME NEW s \in Seq(Nat), NEW a \in Nat, NEW b \in Nat, a <= b
  PROVE  /\ s \o Bytes(a, b) \in Seq(Nat)
         /\ Len(s \o Bytes(a, b)) = Len(s) + (b - a)
         /\ \A c \in Nat : After(s, c) /\ (a = c + Len(s) \/ a = b) =>
              After(s \o Bytes(a, b), c)
<1> DEFINE u == Bytes(a, b)
<1>1. u \in Seq(Nat) /\ Len(u) = b - a /\ After(u, a)
  BY BytesFacts
<1> HIDE DEF u
<1>2. /\ s \o u \in Seq(Nat) /\ Len(s \o u) = Len(s) + (b - a)
      /\ \A i \in 1 .. Len(s) + (b - a) :
           (s \o u)[i] = IF i <= Len(s) THEN s[i] ELSE u[i - Len(s)]
  BY <1>1, ConcatProperties
<1>3. ASSUME NEW c \in Nat, After(s, c), a = c + Len(s) \/ a = b
      PROVE  After(s \o u, c)
  <2>1. /\ \A k \in 1 .. Len(s) : s[k] = c + k
        /\ \A k \in 1 .. b - a : u[k] = a + k
        /\ DOMAIN (s \o u) = 1 .. Len(s) + (b - a)
    BY <1>1, <1>2, <1>3 DEF After
  <2>2. ASSUME NEW k \in 1 .. Len(s) + (b - a)
        PROVE  (s \o u)[k] = c + k
    <3>1. CASE k <= Len(s)
      BY <1>2, <2>1, <3>1
    <3>2. CASE ~(k <= Len(s))
      <4>1. k - Len(s) \in 1 .. b - a /\ a = c + Len(s)
        BY <1>3, <3>2
      <4> QED
        BY <1>2, <2>1, <3>2, <4>1
    <3> QED
      BY <3>1, <3>2
  <2> QED
    BY <2>1, <2>2 DEF After
<1> QED
  BY <1>2, <1>3 DEF u

LEMMA AfterIsBytes ==
  ASSUME NEW s \in Seq(Nat), After(s, 0)
  PROVE  s = Bytes(0, Len(s))
<1>1. Bytes(0, Len(s)) \in Seq(Nat) /\ Len(Bytes(0, Len(s))) = Len(s)
      /\ After(Bytes(0, Len(s)), 0)
  BY BytesFacts
<1>2. \A i \in 1 .. Len(s) : s[i] = Bytes(0, Len(s))[i]
  BY <1>1 DEF After
<1> QED
  BY <1>1, <1>2, SeqEqual
-----------------------------------------------------------------------------
(* What the socket takes of n bytes. *)
LEMMA TakenFacts ==
  ASSUME TypeOK, NEW n \in Nat
  PROVE  /\ Taken(n) \in 0 .. n /\ Len(sock) + Taken(n) <= Cap
         /\ Taken(n) < n => Len(sock) + Taken(n) = Cap
<1>1. Len(sock) \in Nat /\ Cap \in Nat /\ Len(sock) <= Cap
  BY SendAssumption DEF TypeOK
<1>2. Taken(n) = IF n <= Cap - Len(sock) THEN n ELSE Cap - Len(sock)
  BY <1>1, MinOfTwo DEF Taken
<1> QED
  BY <1>1, <1>2

(* do_write_conn: the socket gets the start of the buffer. *)
LEMMA WriteFacts ==
  ASSUME SendInv, sock' = sock \o SubSeq(buf, 1, Written)
  PROVE  /\ Written \in 0 .. Len(buf) /\ Drop(buf, Written) \in Seq(Nat)
         /\ sock' \in Seq(Nat) /\ Len(sock') = Len(sock) + Written
         /\ Len(sock') <= Cap /\ (Written < Len(buf) => Len(sock') = Cap)
         /\ Len(Drop(buf, Written)) = Len(buf) - Written
         /\ Len(buf) \in Nat /\ Len(sock) \in Nat /\ Len(rcvd) \in Nat
         /\ Drop(buf, Written) = <<>> <=> Written = Len(buf)
         /\ conn = "open" /\ ~reset =>
              /\ After(sock', Len(rcvd))
              /\ After(Drop(buf, Written), Len(rcvd) + Len(sock'))
<1>1. /\ buf \in Seq(Nat) /\ sock \in Seq(Nat) /\ rcvd \in Seq(Nat) /\ TypeOK
      /\ Len(buf) \in Nat /\ Len(sock) \in Nat /\ Len(rcvd) \in Nat
  BY DEF SendInv, TypeOK
<1>2. /\ Written \in 0 .. Len(buf) /\ Len(sock) + Written <= Cap
      /\ Written < Len(buf) => Len(sock) + Written = Cap
  BY <1>1, TakenFacts DEF Written
<1>3. /\ sock' \in Seq(Nat) /\ Drop(buf, Written) \in Seq(Nat)
      /\ Len(sock') = Len(sock) + Written /\ Len(Drop(buf, Written)) = Len(buf) - Written
      /\ \A a \in Nat : After(sock, a) /\ After(buf, a + Len(sock)) =>
              /\ After(sock', a)
              /\ After(Drop(buf, Written), a + Len(sock) + Written)
  BY <1>1, <1>2, Moved
<1>4. Drop(buf, Written) = <<>> <=> Written = Len(buf)
  <2>1. Drop(buf, Written) = <<>> <=> Len(Drop(buf, Written)) = 0
    BY <1>3, EmptySeq
  <2> QED
    BY <1>1, <1>2, <1>3, <2>1
<1>5. conn = "open" /\ ~reset =>
              /\ After(sock', Len(rcvd))
              /\ After(Drop(buf, Written), Len(rcvd) + Len(sock'))
  <2>1. (Len(rcvd) + Len(sock)) + Written = Len(rcvd) + Len(sock')
    BY <1>1, <1>2, <1>3
  <2> QED
    BY <1>1, <1>3, <2>1 DEF SendInv, StreamInv
<1> QED
  BY <1>1, <1>2, <1>3, <1>4, <1>5

LEMMA PeerReadsStep == \A n \in 1 .. Len(sock) : SendInv /\ PeerReads(n) => SendInv'
<1> SUFFICES ASSUME NEW n \in 1 .. Len(sock), SendInv, PeerReads(n) PROVE SendInv'
  OBVIOUS
<1>1. /\ buf \in Seq(Nat) /\ sock \in Seq(Nat) /\ rcvd \in Seq(Nat) /\ TypeOK
      /\ Len(buf) \in Nat /\ Len(sock) \in Nat /\ Len(rcvd) \in Nat
      /\ Cap \in Nat /\ n \in 0 .. Len(sock) /\ n > 0 /\ Len(sock) <= Cap
  BY SendAssumption DEF SendInv, TypeOK
<1>2. /\ rcvd' \in Seq(Nat) /\ sock' \in Seq(Nat)
      /\ Len(rcvd') = Len(rcvd) + n /\ Len(sock') = Len(sock) - n
      /\ \A a \in Nat : After(rcvd, a) /\ After(sock, a + Len(rcvd)) =>
           /\ After(rcvd', a) /\ After(sock', a + Len(rcvd) + n)
  BY <1>1, Moved DEF PeerReads
<1>3. /\ ~reset /\ edge' = (edge \/ (armed /\ conn = "open" /\ Len(sock) = Cap))
      /\ UNCHANGED <<is_parent, limit, fate, at, conn, closing, buf, bufsz, armed, want,
                     prev, ready, total, reset>>
  BY DEF PeerReads, sendbuf
<1>4. TypeOK'
  BY <1>1, <1>2, <1>3 DEF TypeOK
<1>5. StreamInv'
  <2>1. After(rcvd, 0) /\ After(sock, 0 + Len(rcvd))
    BY <1>1, <1>3 DEF SendInv, StreamInv
  <2>2. After(rcvd', 0) /\ After(sock', 0 + Len(rcvd) + n)
    BY <1>2, <2>1
  <2>3. 0 + Len(rcvd) + n = Len(rcvd') /\ Len(rcvd') + Len(sock') = Len(rcvd) + Len(sock)
    BY <1>1, <1>2
  <2> QED
    BY <1>3, <2>2, <2>3 DEF SendInv, StreamInv
<1>6. LoopInv' /\ BufferFits'
  BY <1>3 DEF SendInv, LoopInv, BufferFits
<1>7. WatchInv'
  <2>1. NoLimit' <=> NoLimit
    BY <1>3 DEF NoLimit
  <2>2. armed => conn = "open"
    BY DEF SendInv, LoopInv, TypeOK
  <2> QED
    BY <1>1, <1>3, <2>1, <2>2 DEF SendInv, WatchInv, TypeOK
<1> QED
  BY <1>4, <1>5, <1>6, <1>7 DEF SendInv

LEMMA PeerResetsStep == SendInv /\ PeerResets => SendInv'
<1> SUFFICES ASSUME SendInv, PeerResets PROVE SendInv'
  OBVIOUS
<1>1. /\ reset' = TRUE /\ edge' = TRUE /\ sock' = <<>>
      /\ UNCHANGED <<is_parent, limit, fate, at, conn, closing, buf, bufsz, armed, want,
                     prev, ready, total, rcvd>>
  BY DEF PeerResets, sendbuf
<1>2. TypeOK' /\ BufferFits'
  BY <1>1, SendAssumption DEF SendInv, TypeOK, BufferFits
<1>3. StreamInv' /\ LoopInv'
  BY <1>1 DEF SendInv, StreamInv, LoopInv
<1>4. WatchInv'
  BY <1>1 DEF SendInv, WatchInv, NoLimit
<1> QED
  BY <1>2, <1>3, <1>4 DEF SendInv

(* net_send, its do_write_conn (net_if.c) *)
LEMMA NetSendStep == \A n \in Lens : SendInv /\ NetSend(n) => SendInv'
<1> SUFFICES ASSUME NEW n \in Lens, SendInv, NetSend(n) PROVE SendInv'
  OBVIOUS
<1>1. /\ at = "work" /\ at' = "data" /\ conn = "open" /\ want' = n
      /\ prev' = (buf # <<>>) /\ n \in Nat
      /\ sock' = sock \o SubSeq(buf, 1, Written) /\ buf' = Drop(buf, Written)
      /\ UNCHANGED <<is_parent, limit, fate, conn, closing, bufsz, armed, ready, total,
                     edge, reset, rcvd>>
  BY SendAssumption DEF NetSend
<1>2. /\ Written \in 0 .. Len(buf) /\ buf' \in Seq(Nat)
      /\ sock' \in Seq(Nat) /\ Len(sock') = Len(sock) + Written
      /\ Len(sock') <= Cap /\ (Written < Len(buf) => Len(sock') = Cap)
      /\ Len(buf') = Len(buf) - Written
      /\ Len(buf) \in Nat /\ Len(sock) \in Nat /\ Len(rcvd) \in Nat
      /\ buf' = <<>> <=> Written = Len(buf)
      /\ conn = "open" /\ ~reset =>
           After(sock', Len(rcvd)) /\ After(buf', Len(rcvd) + Len(sock'))
  BY <1>1, WriteFacts
<1>3. TypeOK'
  BY <1>1, <1>2 DEF SendInv, TypeOK
<1>4. BufferFits'
  BY <1>1, <1>2 DEF SendInv, TypeOK, BufferFits
<1>5. StreamInv'
  <2>1. Len(sock') + Len(buf') = Len(sock) + Len(buf)
    BY <1>2
  <2>2. ~reset => total = Len(rcvd) + Len(sock) + Len(buf) /\ After(rcvd, 0)
    BY <1>1 DEF SendInv, StreamInv
  <2>3. ~reset => total = Len(rcvd) + Len(sock') + Len(buf')
    BY <1>2, <2>1, <2>2
  <2> QED
    BY <1>1, <1>2, <2>2, <2>3 DEF StreamInv
<1>6. LoopInv'
  <2>1. CASE buf = <<>>
    <3>1. Len(buf) = 0
      BY <2>1
    <3>2. buf' = <<>>
      BY <1>2, <3>1
    <3> QED
      BY <1>1, <3>2 DEF SendInv, LoopInv
  <2>2. CASE buf # <<>>
    BY <1>1, <2>2 DEF SendInv, LoopInv
  <2> QED
    BY <2>1, <2>2
<1>7. WatchInv'
  <2>1. NoLimit' <=> NoLimit
    BY <1>1 DEF NoLimit
  <2>2. buf' # <<>> => Len(sock') = Cap
    BY <1>2
  <2>3. Cap \in Nat /\ Len(sock') \in Nat
    BY <1>2, SendAssumption
  <2>4. at' = "data" /\ armed' = armed
    BY <1>1
  <2>5. NoLimit /\ prev' => armed
    BY <1>1 DEF SendInv, WatchInv
  <2>6. ~(buf' # <<>> /\ Len(sock') < Cap)
    BY <2>2, <2>3
  <2> QED
    BY <2>1, <2>4, <2>5, <2>6 DEF WatchInv
<1> QED
  BY <1>3, <1>4, <1>5, <1>6, <1>7 DEF SendInv

(* net_send, the new bytes (net_if.c) *)
LEMMA SendDataStep == SendInv /\ SendData => SendInv'
<1> SUFFICES ASSUME SendInv, SendData PROVE SendInv'
  OBVIOUS
<1> DEFINE s == NewData
           rest == want - s
<1>1. /\ at = "data" /\ conn = "open"
      /\ sock' = sock \o Bytes(total, total + s)
      /\ buf' = buf \o Bytes(total + s, total + want)
      /\ bufsz' = Grown(rest) /\ total' = total + want
      /\ at' = IF MustMod(Len(buf) + rest) /\ ~OverLimit(rest) THEN "arm" ELSE "work"
      /\ UNCHANGED <<is_parent, limit, fate, conn, closing, armed, want, prev, ready,
                     edge, reset, rcvd>>
  BY DEF SendData, SendInv, LoopInv
<1>2. /\ buf \in Seq(Nat) /\ sock \in Seq(Nat) /\ rcvd \in Seq(Nat) /\ TypeOK
      /\ Len(buf) \in Nat /\ Len(sock) \in Nat /\ Len(rcvd) \in Nat
      /\ Cap \in Nat /\ want \in Nat /\ total \in Nat /\ bufsz \in Nat
      /\ Len(sock) <= Cap
  BY SendAssumption DEF SendInv, TypeOK
<1>3. /\ s \in 0 .. want /\ Len(sock) + s <= Cap
      /\ buf = <<>> /\ s < want => Len(sock) + s = Cap
      /\ buf # <<>> => s = 0
  <2>1. CASE buf = <<>>
    <3>1. s = Taken(want)
      BY <2>1 DEF NewData
    <3> QED
      BY <1>2, <2>1, <3>1, TakenFacts
  <2>2. CASE buf # <<>>
    <3>1. s = 0
      BY <2>2 DEF NewData
    <3> QED
      BY <1>2, <2>2, <3>1
  <2> QED
    BY <2>1, <2>2
<1> HIDE DEF s
<1>4. /\ total + s \in Nat /\ total + want \in Nat /\ total <= total + s
      /\ total + s <= total + want /\ (total + s) - total = s
      /\ (total + want) - (total + s) = rest /\ rest \in Nat
  BY <1>2, <1>3
<1>5. /\ sock' \in Seq(Nat) /\ Len(sock') = Len(sock) + s
      /\ \A c \in Nat : /\ After(sock, c)
                        /\ total = c + Len(sock) \/ total = total + s
                        => After(sock', c)
  <2> DEFINE b == total + s
  <2>1. b \in Nat /\ total <= b /\ b - total = s /\ total \in Nat /\ sock \in Seq(Nat)
    BY <1>2, <1>4
  <2> HIDE DEF b
  <2>2. /\ sock \o Bytes(total, b) \in Seq(Nat)
        /\ Len(sock \o Bytes(total, b)) = Len(sock) + (b - total)
        /\ \A c \in Nat : After(sock, c) /\ (total = c + Len(sock) \/ total = b)
             => After(sock \o Bytes(total, b), c)
    BY <2>1, Appended, ZenonT(60)
  <2>3. sock' = sock \o Bytes(total, b)
    BY <1>1 DEF b
  <2> QED
    BY <2>1, <2>2, <2>3, Zenon DEF b
<1>6. /\ buf' \in Seq(Nat) /\ Len(buf') = Len(buf) + rest
      /\ \A c \in Nat : /\ After(buf, c)
                        /\ total + s = c + Len(buf) \/ total + s = total + want
                        => After(buf', c)
  <2> DEFINE a == total + s
             b == total + want
  <2>1. a \in Nat /\ b \in Nat /\ a <= b /\ b - a = rest /\ buf \in Seq(Nat)
    BY <1>2, <1>4
  <2> HIDE DEF a, b
  <2>2. /\ buf \o Bytes(a, b) \in Seq(Nat)
        /\ Len(buf \o Bytes(a, b)) = Len(buf) + (b - a)
        /\ \A c \in Nat : After(buf, c) /\ (a = c + Len(buf) \/ a = b)
             => After(buf \o Bytes(a, b), c)
    BY <2>1, Appended, ZenonT(60)
  <2>3. buf' = buf \o Bytes(a, b)
    BY <1>1 DEF a, b
  <2> QED
    BY <2>1, <2>2, <2>3, Zenon DEF a, b
<1>7. TypeOK'
  <2>1. bufsz' = Len(buf) + rest \/ bufsz' = bufsz
    BY <1>1, Zenon DEF Grown
  <2>2. bufsz' \in Nat
    BY <1>2, <1>4, <2>1
  <2> QED
    BY <1>1, <1>2, <1>3, <1>4, <1>5, <1>6, <2>2 DEF TypeOK
<1>8. BufferFits'
  <2>1. PICK m \in Nat : m = Len(buf) /\ m <= bufsz /\ Len(buf') = m + rest
    BY <1>2, <1>6 DEF SendInv, BufferFits
  <2>2. bufsz' = IF rest > 0 /\ bufsz < m + rest THEN m + rest ELSE bufsz
    BY <1>1, <2>1, Zenon DEF Grown
  <2>3. rest \in Nat /\ bufsz \in Nat
    BY <1>2, <1>4
  <2> HIDE DEF rest
  <2>4. m + rest <= bufsz'
    BY <2>1, <2>2, <2>3
  <2> QED
    BY <2>1, <2>4, Zenon DEF BufferFits
<1>9. StreamInv'
  <2> SUFFICES ASSUME ~reset
               PROVE  /\ After(rcvd, 0) /\ After(sock', Len(rcvd))
                      /\ After(buf', Len(rcvd) + Len(sock'))
                      /\ total + want = Len(rcvd) + Len(sock') + Len(buf')
    BY <1>1 DEF StreamInv, SendInv, TypeOK
  <2>1. /\ After(rcvd, 0) /\ After(sock, Len(rcvd))
        /\ After(buf, Len(rcvd) + Len(sock))
        /\ total = Len(rcvd) + Len(sock) + Len(buf)
    BY <1>1 DEF SendInv, StreamInv
  <2>2. After(sock', Len(rcvd))
    <3>1. CASE buf = <<>>
      BY <1>2, <1>5, <2>1, <3>1
    <3>2. CASE buf # <<>>
      BY <1>2, <1>3, <1>5, <2>1, <3>2
    <3> QED
      BY <3>1, <3>2
  <2>3. After(buf', Len(rcvd) + Len(sock'))
    <3>1. CASE buf = <<>>
      <4>1. After(buf, Len(rcvd) + Len(sock'))
        BY <3>1 DEF After
      <4>2. total + s = (Len(rcvd) + Len(sock')) + Len(buf)
        BY <1>2, <1>3, <1>5, <2>1, <3>1
      <4> QED
        BY <1>2, <1>5, <1>6, <4>1, <4>2
    <3>2. CASE buf # <<>>
      BY <1>2, <1>3, <1>5, <1>6, <2>1, <3>2
    <3> QED
      BY <3>1, <3>2
  <2> QED
    BY <1>2, <1>3, <1>4, <1>5, <1>6, <2>1, <2>2, <2>3
<1>10. Len(buf') = 0 <=> buf' = <<>>
  BY <1>6
<1>11. LoopInv'
  <2>1. at' = "arm" /\ prev => buf' = <<>>
    BY <1>1, <1>2, <1>4, <1>6, <1>10 DEF MustMod
  <2> QED
    BY <1>1, <2>1 DEF SendInv, LoopInv
<1>12. WatchInv'
  <2>1. NoLimit' <=> NoLimit
    BY <1>1 DEF NoLimit
  <2>2. at' \in {"arm", "work"}
    BY <1>1
  <2>3. ASSUME at' # "arm", buf' # <<>>, NoLimit
        PROVE  armed
    <3>1. CASE prev
      BY <1>1, <2>3, <3>1 DEF SendInv, WatchInv
    <3>2. CASE ~prev
      <4>1. buf = <<>> /\ want \in Lens
        BY <1>1, <3>2 DEF SendInv, LoopInv
      <4>2. Len(buf) = 0 /\ rest > 0
        BY <1>2, <1>4, <1>6, <1>10, <2>3, <4>1
      <4>3. MustMod(Len(buf) + rest)
        BY <1>2, <1>4, <3>2, <4>2 DEF MustMod
      <4>4. ~OverLimit(rest)
        BY <1>2, <1>3, <1>4, <2>3, <4>1, <4>2 DEF OverLimit, NoLimit, TypeOK
      <4> QED
        BY <1>1, <2>3, <4>3, <4>4
    <3> QED
      BY <3>1, <3>2
  <2>4. ASSUME armed, buf' # <<>>, Len(sock') < Cap
        PROVE  edge \/ ready # "none"
    <3>1. CASE buf = <<>>
      BY <1>2, <1>3, <1>4, <1>5, <1>6, <1>10, <2>4, <3>1
    <3>2. CASE buf # <<>>
      BY <1>1, <1>2, <1>3, <1>5, <2>4, <3>2 DEF SendInv, WatchInv
    <3> QED
      BY <3>1, <3>2
  <2> QED
    BY <1>1, <2>1, <2>2, <2>3, <2>4 DEF WatchInv
<1> QED
  BY <1>7, <1>8, <1>9, <1>11, <1>12 DEF SendInv

(* do_del_conn. *)
LEMMA DelStep ==
  ASSUME SendInv, Del, at' \in {"turn", "wait", "work"},
         sock' \in Seq(Nat), Len(sock') <= Cap,
         ~reset => After(sock', Len(rcvd)),
         ready' \in {"none", ready}, at' \in {"turn", "wait"} => ready' = "none",
         UNCHANGED <<is_parent, limit, fate, want, prev, total, reset, rcvd>>
  PROVE  SendInv'
<1>1. /\ conn' = "closed" /\ closing' = FALSE /\ buf' = <<>> /\ bufsz' = 0
      /\ armed' = FALSE /\ edge' = FALSE
  BY DEF Del
<1>2. TypeOK'
  <2>1. TypeOK
    BY DEF SendInv
  <2>2. buf' \in Seq(Nat) /\ bufsz' \in Nat
    BY <1>1
  <2>3. closing' \in BOOLEAN /\ armed' \in BOOLEAN /\ edge' \in BOOLEAN
    BY <1>1, Zenon
  <2>4. /\ conn' \in {"open", "closed"} /\ ready' \in {"none", "out", "hup"}
        /\ at' \in {"turn", "wait", "work", "data", "arm"}
    BY <1>1, <2>1 DEF TypeOK
  <2>5. /\ is_parent' \in BOOLEAN /\ prev' \in BOOLEAN /\ reset' \in BOOLEAN
        /\ limit' \in Nat /\ want' \in Nat /\ total' \in Nat /\ rcvd' \in Seq(Nat)
    BY <2>1, Zenon DEF TypeOK
  <2> QED
    BY <2>2, <2>3, <2>4, <2>5, Zenon DEF TypeOK
<1>3. BufferFits'
  BY <1>1 DEF BufferFits
<1>4. StreamInv'
  BY <1>1 DEF SendInv, StreamInv
<1>5. LoopInv'
  BY <1>1 DEF SendInv, LoopInv
<1>6. WatchInv'
  BY <1>1 DEF WatchInv
<1> QED
  BY <1>2, <1>3, <1>4, <1>5, <1>6 DEF SendInv

LEMMA NetSendFailsStep == SendInv /\ NetSendFails => SendInv'
<1> SUFFICES ASSUME SendInv, NetSendFails PROVE SendInv'
  OBVIOUS
<1>1. /\ Del /\ at' = "work" /\ reset
      /\ UNCHANGED <<is_parent, limit, fate, want, prev, ready, total, sock, reset, rcvd>>
  BY DEF NetSendFails
<1>2. sock' \in Seq(Nat) /\ Len(sock') <= Cap /\ ready' \in {"none", ready}
  BY <1>1 DEF SendInv, TypeOK
<1> QED
  BY <1>1, <1>2, DelStep

LEMMA HandleHupStep == SendInv /\ HandleHup => SendInv'
<1> SUFFICES ASSUME SendInv, HandleHup PROVE SendInv'
  OBVIOUS
<1>1. /\ Del /\ at' = "work" /\ ready' = "none"
      /\ UNCHANGED <<is_parent, limit, fate, want, prev, total, sock, reset, rcvd>>
  BY DEF HandleHup
<1>2. /\ sock' \in Seq(Nat) /\ Len(sock') <= Cap
      /\ ~reset => After(sock', Len(rcvd))
  BY <1>1 DEF SendInv, TypeOK, StreamInv
<1> QED
  BY <1>1, <1>2, DelStep

(* iterate_close_queue (net.c:101-113) *)
LEMMA IterateCloseStep == SendInv /\ IterateClose => SendInv'
<1> SUFFICES ASSUME SendInv, IterateClose PROVE SendInv'
  OBVIOUS
<1>1. /\ at = "turn" /\ at' = "wait"
      /\ UNCHANGED <<is_parent, limit, fate, want, prev, ready, total, reset, rcvd>>
  BY DEF IterateClose
<1>2. ready = "none"
  BY <1>1 DEF SendInv, LoopInv
<1>3. CASE closing
  <2>1. /\ Del /\ sock' = IF reset THEN sock ELSE sock \o SubSeq(buf, 1, Written)
        /\ conn = "open"
    BY <1>3 DEF IterateClose, SendInv, LoopInv, TypeOK
  <2>2. /\ sock' \in Seq(Nat) /\ Len(sock') <= Cap
        /\ ~reset => After(sock', Len(rcvd))
    <3>1. CASE reset
      BY <2>1, <3>1 DEF SendInv, TypeOK
    <3>2. CASE ~reset
      BY <2>1, <3>2, WriteFacts
    <3> QED
      BY <3>1, <3>2
  <2> QED
    BY <1>1, <1>2, <2>1, <2>2, DelStep
<1>4. CASE ~closing
  <2>1. UNCHANGED <<conn, closing, buf, bufsz, armed, edge, sock>>
    BY <1>4 DEF IterateClose, sendbuf
  <2>2. TypeOK' /\ BufferFits' /\ StreamInv'
    BY <1>1, <2>1 DEF SendInv, TypeOK, BufferFits, StreamInv
  <2>3. LoopInv'
    BY <1>1, <1>2, <2>1 DEF SendInv, LoopInv
  <2>4. WatchInv'
    BY <1>1, <2>1 DEF SendInv, WatchInv, NoLimit
  <2> QED
    BY <2>2, <2>3, <2>4 DEF SendInv
<1> QED
  BY <1>3, <1>4

(* mod_events *)
LEMMA ModEventsStep == SendInv /\ ModEvents => SendInv'
<1> SUFFICES ASSUME SendInv, ModEvents PROVE SendInv'
  OBVIOUS
<1>1. /\ at = "arm" /\ at' = "work" /\ armed' = ~prev
      /\ edge' = (reset \/ (~prev /\ Len(sock) < Cap))
      /\ UNCHANGED <<is_parent, limit, fate, conn, closing, buf, bufsz, want, prev,
                     ready, total, sock, reset, rcvd>>
  BY DEF ModEvents, sendbuf
<1>2. conn = "open" /\ (prev => buf = <<>>) /\ prev \in BOOLEAN
  BY <1>1 DEF SendInv, LoopInv, TypeOK
<1>3. TypeOK' /\ BufferFits' /\ StreamInv'
  BY <1>1 DEF SendInv, TypeOK, BufferFits, StreamInv
<1>4. LoopInv'
  BY <1>1, <1>2 DEF SendInv, LoopInv
<1>5. WatchInv'
  BY <1>1, <1>2 DEF WatchInv
<1> QED
  BY <1>3, <1>4, <1>5 DEF SendInv

LEMMA FinStep == SendInv /\ Fin => SendInv'
<1> SUFFICES ASSUME SendInv, Fin PROVE SendInv'
  OBVIOUS
<1>1. /\ conn = "open" /\ closing' = TRUE
      /\ UNCHANGED <<is_parent, limit, fate, at, conn, buf, bufsz, armed, want, prev,
                     ready, total, sock, edge, reset, rcvd>>
  BY DEF Fin, sendbuf, kernel
<1>2. TypeOK' /\ BufferFits' /\ StreamInv'
  BY <1>1 DEF SendInv, TypeOK, BufferFits, StreamInv
<1>3. LoopInv'
  BY <1>1 DEF SendInv, LoopInv
<1>4. WatchInv'
  BY <1>1 DEF SendInv, WatchInv, NoLimit
<1> QED
  BY <1>2, <1>3, <1>4 DEF SendInv

(* An EPOLLOUT event: do_write_conn (net.c:588-595) *)
LEMMA HandleOutStep == SendInv /\ HandleOut => SendInv'
<1> SUFFICES ASSUME SendInv, HandleOut PROVE SendInv'
  OBVIOUS
<1>1. /\ at = "work" /\ at' = "work" /\ conn = "open" /\ ready' = "none"
      /\ sock' = sock \o SubSeq(buf, 1, Written) /\ buf' = Drop(buf, Written)
      /\ armed' = (armed /\ Written < Len(buf))
      /\ edge' = ((edge /\ buf' # <<>>) \/ reset)
      /\ UNCHANGED <<is_parent, limit, fate, conn, closing, bufsz, want, prev, total,
                     reset, rcvd>>
  BY DEF HandleOut
<1>2. /\ Written \in 0 .. Len(buf) /\ buf' \in Seq(Nat)
      /\ sock' \in Seq(Nat) /\ Len(sock') = Len(sock) + Written
      /\ Len(sock') <= Cap /\ (Written < Len(buf) => Len(sock') = Cap)
      /\ Len(buf') = Len(buf) - Written
      /\ Len(buf) \in Nat /\ Len(sock) \in Nat /\ Len(rcvd) \in Nat
      /\ buf' = <<>> <=> Written = Len(buf)
      /\ conn = "open" /\ ~reset =>
           After(sock', Len(rcvd)) /\ After(buf', Len(rcvd) + Len(sock'))
  BY <1>1, WriteFacts
<1>3. TypeOK'
  <2>1. armed' \in BOOLEAN /\ edge' \in BOOLEAN
    BY <1>1 DEF SendInv, TypeOK
  <2> QED
    BY <1>1, <1>2, <2>1 DEF SendInv, TypeOK
<1>4. BufferFits'
  BY <1>1, <1>2 DEF SendInv, TypeOK, BufferFits
<1>5. StreamInv'
  <2>1. Len(sock') + Len(buf') = Len(sock) + Len(buf)
    BY <1>2
  <2>2. ~reset => total = Len(rcvd) + Len(sock) + Len(buf) /\ After(rcvd, 0)
    BY <1>1 DEF SendInv, StreamInv
  <2>3. ~reset => total = Len(rcvd) + Len(sock') + Len(buf')
    BY <1>2, <2>1, <2>2
  <2> QED
    BY <1>1, <1>2, <2>2, <2>3 DEF StreamInv
<1>6. LoopInv'
  BY <1>1 DEF SendInv, LoopInv
<1>7. WatchInv'
  <2>1. NoLimit' <=> NoLimit
    BY <1>1 DEF NoLimit
  <2>2. buf' # <<>> => Written < Len(buf) /\ Len(sock') = Cap /\ buf # <<>>
    BY <1>2
  <2>3. ~(buf' # <<>> /\ Len(sock') < Cap)
    BY <1>2, <2>2, SendAssumption
  <2>4. NoLimit /\ buf' # <<>> => armed'
    BY <1>1, <2>2 DEF SendInv, WatchInv
  <2>5. at' = "work"
    BY <1>1
  <2> QED
    BY <2>1, <2>3, <2>4, <2>5 DEF WatchInv
<1> QED
  BY <1>3, <1>4, <1>5, <1>6, <1>7 DEF SendInv

(* epoll_wait *)
LEMMA EpollWaitStep == SendInv /\ EpollWait => SendInv'
<1> SUFFICES ASSUME SendInv, EpollWait PROVE SendInv'
  OBVIOUS
<1>1. /\ at = "wait" /\ at' = "work" /\ edge' = FALSE
      /\ ready' = CASE ~edge -> "none" [] edge /\ reset -> "hup" [] OTHER -> "out"
      /\ UNCHANGED <<is_parent, limit, fate, conn, closing, buf, bufsz, armed, want, prev,
                     total, sock, reset, rcvd>>
  BY DEF EpollWait, sendbuf
<1>2. ready = "none" /\ edge \in BOOLEAN /\ reset \in BOOLEAN
  BY <1>1 DEF SendInv, LoopInv, TypeOK
<1>3. /\ ready' \in {"none", "out", "hup"} /\ (ready' = "hup" => reset)
      /\ ready' = "none" => ~edge
  <2>1. CASE ~edge
    BY <1>1, <2>1
  <2>2. CASE edge /\ reset
    BY <1>1, <2>2
  <2>3. CASE edge /\ ~reset
    BY <1>1, <2>3
  <2> QED
    BY <1>2, <2>1, <2>2, <2>3
<1>4. UNCHANGED <<at>> \/ at' = "work"
  BY <1>1
<1>5. TypeOK' /\ BufferFits' /\ StreamInv'
  BY <1>1, <1>3 DEF SendInv, TypeOK, BufferFits, StreamInv
<1>6. LoopInv'
  BY <1>1, <1>3 DEF SendInv, LoopInv
<1>7. WatchInv'
  <2>1. NoLimit' <=> NoLimit
    BY <1>1 DEF NoLimit
  <2>2. armed /\ buf # <<>> /\ Len(sock) < Cap => ready' # "none"
    BY <1>1, <1>2, <1>3 DEF SendInv, WatchInv
  <2> QED
    BY <1>1, <2>1, <2>2 DEF SendInv, WatchInv
<1> QED
  BY <1>5, <1>6, <1>7 DEF SendInv

LEMMA TurnEndsStep == SendInv /\ TurnEnds => SendInv'
<1> SUFFICES ASSUME SendInv, TurnEnds PROVE SendInv'
  OBVIOUS
<1>1. /\ at = "work" /\ at' = "turn" /\ ready = "none"
      /\ UNCHANGED <<is_parent, limit, fate, conn, closing, buf, bufsz, armed, want, prev,
                     ready, total, sock, edge, reset, rcvd>>
  BY DEF TurnEnds, sendbuf, kernel
<1>2. TypeOK' /\ BufferFits' /\ StreamInv'
  BY <1>1 DEF SendInv, TypeOK, BufferFits, StreamInv
<1>3. LoopInv'
  BY <1>1 DEF SendInv, LoopInv
<1>4. WatchInv'
  BY <1>1 DEF SendInv, WatchInv, NoLimit
<1> QED
  BY <1>2, <1>3, <1>4 DEF SendInv

(* A reason to delete the connection comes up. *)
LEMMA DoomedStep == SendInv /\ Doomed => SendInv'
<1> SUFFICES ASSUME SendInv, Doomed PROVE SendInv'
  OBVIOUS
<1>1. UNCHANGED <<is_parent, limit, at, conn, closing, buf, bufsz, armed, want, prev,
                  ready, total, sock, edge, reset, rcvd>>
  BY DEF Doomed, sendbuf, kernel
<1>2. TypeOK' /\ BufferFits' /\ StreamInv'
  BY <1>1 DEF SendInv, TypeOK, BufferFits, StreamInv
<1>3. LoopInv'
  BY <1>1 DEF SendInv, LoopInv
<1>4. WatchInv'
  BY <1>1 DEF SendInv, WatchInv, NoLimit
<1> QED
  BY <1>2, <1>3, <1>4 DEF SendInv

(* The deletions that leave the buffer unwritten. *)
LEMMA DelUnwrittenStep ==
  SendInv /\ (HandleIn \/ Reap \/ WorkerHangup \/ CloseSvr) => SendInv'
<1> SUFFICES ASSUME SendInv, HandleIn \/ Reap \/ WorkerHangup \/ CloseSvr
             PROVE  SendInv'
  OBVIOUS
<1>1. /\ Del /\ conn = "open" /\ at \in {"work", "wait"}
      /\ UNCHANGED <<is_parent, limit, fate, at, want, prev, ready, total, sock,
                     reset, rcvd>>
  BY DEF HandleIn, Reap, WorkerHangup, CloseSvr, DelUnwritten
<1>2. /\ sock' \in Seq(Nat) /\ Len(sock') <= Cap /\ ready' \in {"none", ready}
      /\ ~reset => After(sock', Len(rcvd))
      /\ at' \in {"turn", "wait"} => ready' = "none"
  BY <1>1 DEF SendInv, TypeOK, StreamInv, LoopInv
<1> QED
  BY <1>1, <1>2, DelStep

LEMMA SendInit == Init => SendInv
<1> SUFFICES ASSUME Init PROVE SendInv
  OBVIOUS
<1>1. TypeOK
  <2>1. /\ is_parent \in BOOLEAN /\ closing \in BOOLEAN /\ armed \in BOOLEAN
        /\ prev \in BOOLEAN /\ edge \in BOOLEAN /\ reset \in BOOLEAN
    BY Zenon DEF Init
  <2>2. /\ limit \in Nat /\ bufsz \in Nat /\ want \in Nat /\ total \in Nat
        /\ buf \in Seq(Nat) /\ sock \in Seq(Nat) /\ rcvd \in Seq(Nat)
        /\ Len(sock) <= Cap
    BY SendAssumption DEF Init
  <2>3. /\ at \in {"turn", "wait", "work", "data", "arm"} /\ conn \in {"open", "closed"}
        /\ ready \in {"none", "out", "hup"}
    BY DEF Init
  <2> QED
    BY <2>1, <2>2, <2>3, Zenon DEF TypeOK
<1>2. BufferFits /\ StreamInv
  BY DEF Init, BufferFits, StreamInv, After
<1>3. LoopInv
  BY DEF Init, LoopInv
<1>4. WatchInv
  BY DEF Init, WatchInv
<1> QED
  BY <1>1, <1>2, <1>3, <1>4 DEF SendInv

LEMMA SendStep == SendInv /\ [Next]_vars => SendInv'
<1> SUFFICES ASSUME SendInv, [Next]_vars PROVE SendInv'
  OBVIOUS
<1>1. CASE UNCHANGED vars
  <2>1. UNCHANGED <<is_parent, limit, fate, at, conn, closing, buf, bufsz, armed, want,
                    prev, ready, total, sock, edge, reset, rcvd>>
    BY <1>1 DEF vars, sendbuf, kernel
  <2>2. TypeOK' /\ BufferFits' /\ StreamInv'
    BY <2>1 DEF SendInv, TypeOK, BufferFits, StreamInv
  <2>3. LoopInv'
    BY <2>1 DEF SendInv, LoopInv
  <2>4. WatchInv'
    BY <2>1 DEF SendInv, WatchInv, NoLimit
  <2> QED
    BY <2>2, <2>3, <2>4 DEF SendInv
<1>2. CASE Peer
  BY <1>2, PeerReadsStep, PeerResetsStep, DoomedStep DEF Peer
<1>3. CASE Work
  BY <1>3, NetSendStep, FinStep DEF Work
<1>4. CASE Loop
  BY <1>4, SendDataStep, NetSendFailsStep, ModEventsStep, HandleOutStep,
     HandleHupStep, TurnEndsStep, IterateCloseStep, DelUnwrittenStep DEF Loop
<1>5. CASE EpollWait
  BY <1>5, EpollWaitStep
<1> QED
  BY <1>1, <1>2, <1>3, <1>4, <1>5 DEF Next

LEMMA SendInvariant == Spec => []SendInv
  BY SendInit, SendStep, PTL DEF Spec

(* The memory of the send buffer always holds what is in it, whatever is   *)
(* appended and however often it is reallocated (net_send).                *)
THEOREM BufferFitsThm == Spec => []BufferFits
<1>1. SendInv => BufferFits
  BY DEF SendInv
<1> QED
  BY <1>1, SendInvariant, PTL

(* The peer gets the bytes in the order they were given to net_send, and   *)
(* all of them while the connection is open.                               *)
THEOREM InOrderThm == Spec => []InOrder
<1>1. SendInv => InOrder
  <2> SUFFICES ASSUME SendInv, ~reset
               PROVE  /\ rcvd \o sock = Bytes(0, Len(rcvd \o sock))
                      /\ conn = "open" => rcvd \o sock \o buf = Bytes(0, total)
    BY DEF InOrder
  <2>1. /\ rcvd \in Seq(Nat) /\ sock \in Seq(Nat) /\ buf \in Seq(Nat)
        /\ Len(rcvd) \in Nat /\ Len(sock) \in Nat /\ Len(buf) \in Nat
        /\ After(rcvd, 0) /\ After(sock, Len(rcvd))
    BY DEF SendInv, TypeOK, StreamInv
  <2>2. /\ rcvd \o sock \in Seq(Nat) /\ Len(rcvd \o sock) = Len(rcvd) + Len(sock)
        /\ After(rcvd \o sock, 0)
    BY <2>1, Joined
  <2>3. rcvd \o sock = Bytes(0, Len(rcvd \o sock))
    BY <2>2, AfterIsBytes
  <2>4. ASSUME conn = "open"
        PROVE  rcvd \o sock \o buf = Bytes(0, total)
    <3> DEFINE r == rcvd \o sock
    <3>1. r \in Seq(Nat) /\ Len(r) = Len(rcvd) + Len(sock) /\ After(r, 0)
      BY <2>2
    <3>2. /\ After(buf, Len(rcvd) + Len(sock))
          /\ total = Len(rcvd) + Len(sock) + Len(buf)
      BY <2>4 DEF SendInv, StreamInv
    <3> HIDE DEF r
    <3>4. After(buf, Len(r)) /\ Len(r) \in Nat /\ Len(r) + Len(buf) = total
      BY <2>1, <3>1, <3>2
    <3>5. r \o buf \in Seq(Nat) /\ Len(r \o buf) = total /\ After(r \o buf, 0)
      BY <2>1, <3>1, <3>4, Joined
    <3> QED
      BY <3>5, AfterIsBytes DEF r
  <2> QED
    BY <2>3, <2>4
<1> QED
  BY <1>1, SendInvariant, PTL

(* No byte waits in the buffer with EPOLLOUT unarmed, and no edge is lost  *)
(* between the send that fills the socket and epoll_ctl.                   *)
THEOREM WaitingIsWatchedThm == Spec => []WaitingIsWatched
<1>1. SendInv => WaitingIsWatched
  BY DEF SendInv, WatchInv, WaitingIsWatched
<1> QED
  BY <1>1, SendInvariant, PTL

(* A connection of the close queue is deleted with bytes unsent only if    *)
(* its socket is full or was reset, or if the same turn finds its stream   *)
(* ended or bad, its client idle or its worker hung up.                    *)
THEOREM CloseWritesThm == Spec => CloseWrites
<1>1. SendInv /\ [Next]_vars =>
        [closing /\ conn' = "closed" /\ ~reset
           => \/ Len(sock') = Cap \/ Len(rcvd') + Len(sock') = total
              \/ at = "work" /\ fate # "none"]_vars
  <2> SUFFICES ASSUME SendInv, Next, closing, conn' = "closed", ~reset,
                      ~(at = "work" /\ fate # "none")
               PROVE  Len(sock') = Cap \/ Len(rcvd') + Len(sock') = total
    OBVIOUS
  <2>1. conn = "open" /\ ready # "hup"
    BY DEF SendInv, LoopInv, TypeOK
  <2>2. IterateClose
    BY <2>1 DEF Next, Peer, PeerResets, PeerReads, Doomed, Work, HandleIn, Reap,
                WorkerHangup, CloseSvr, DelUnwritten, NetSend, Fin, Loop, SendData,
                NetSendFails, ModEvents, HandleOut, HandleHup, TurnEnds, EpollWait
  <2>3. sock' = sock \o SubSeq(buf, 1, Written) /\ rcvd' = rcvd
    BY <2>2 DEF IterateClose
  <2>4. total = Len(rcvd) + Len(sock) + Len(buf)
    BY <2>1 DEF SendInv, StreamInv
  <2>5. /\ Written \in 0 .. Len(buf) /\ Len(sock') = Len(sock) + Written
        /\ Written < Len(buf) => Len(sock') = Cap
        /\ Len(buf) \in Nat /\ Len(sock) \in Nat /\ Len(rcvd) \in Nat
    BY <2>3, WriteFacts
  <2>6. CASE Written < Len(buf)
    BY <2>5, <2>6
  <2>7. CASE ~(Written < Len(buf))
    <3>1. Written = Len(buf)
      BY <2>5, <2>7
    <3> QED
      BY <2>3, <2>4, <2>5, <3>1
  <2> QED
    BY <2>6, <2>7
<1> QED
  BY <1>1, SendInvariant, PTL DEF Spec, CloseWrites
=============================================================================
