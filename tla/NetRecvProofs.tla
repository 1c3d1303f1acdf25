--------------------------- MODULE NetRecvProofs ---------------------------
(***************************************************************************)
(* The framing of a connection's bytes: for any page size, any lengths of  *)
(* the packets, and any pieces in which they arrive, the stream is cut     *)
(* where the packets end, the buffer has room for the next read, and what  *)
(* a read leaves in the socket is not forgotten.                           *)
(***************************************************************************)
EXTENDS NetRecv, SequenceTheorems, WellFoundedInduction, TLAPS

(***************************************************************************)
(* The inductive invariant.                                                *)
(***************************************************************************)
(* The first part of UnreadIsRead. *)
UnreadIsKept == wire # <<>> => edge \/ etin \/ closing

Byte == Nat \X Nat

TypeOK ==
  /\ is_parent \in BOOLEAN /\ evt \in BOOLEAN /\ etin \in BOOLEAN
  /\ eof \in BOOLEAN /\ edge \in BOOLEAN /\ closing \in BOOLEAN
  /\ conn \in {"none", "open", "closed"} /\ conns \in Nat
  /\ at \in {"etin", "wait", "parse", "rest", "exited", "garbled"}
  /\ buf \in Seq(Byte) /\ wire \in Seq(Byte) /\ net \in Seq(Byte)
  /\ off \in Nat /\ prot \in Nat
  /\ sent \in Seq(Lens) /\ got \in Seq(Seq(Byte)) /\ Len(got) <= Len(sent)

(* The packets that are not handed on yet. *)
Coming == [i \in 1 .. Len(sent) - Len(got) |-> Packet(sent[Len(got) + i])]

(* An entry without a connection holds nothing, and net_recv is at work    *)
(* on a connection only.                                                   *)
EntryInv ==
  /\ conn # "open" => buf = <<>> /\ wire = <<>> /\ net = <<>> /\ ~edge /\ ~etin /\ ~closing
  /\ at \in {"parse", "rest", "garbled"} => conn = "open"

SplitInv ==
  /\ \A i \in DOMAIN got : got[i] = Packet(sent[i])
  /\ FlattenSeq(got) \o FlattenSeq(Coming) = FlattenSeq(Packets)

StreamInv == conn = "open" => buf \o wire \o net = FlattenSeq(Coming)

(* A length that is known is that of the next packet. *)
FrameInv ==
  conn = "open" /\ prot # 0 => Len(got) < Len(sent) /\ prot = sent[Len(got) + 1]

RoomInv == Len(buf) <= Page /\ (at = "rest" => Len(buf) < Page) /\ BufferHasRoom

RecvInv ==
  TypeOK /\ EntryInv /\ SplitInv /\ StreamInv /\ FrameInv /\ RoomInv /\ UnreadIsKept
-----------------------------------------------------------------------------
USE DEF queues

LEMMA LeastNat ==
  ASSUME NEW S \in SUBSET Nat, S # {}
  PROVE  \E x \in S : \A y \in S : x <= y
<1>1. \E x \in S : \A y \in S : ~(<<y, x>> \in OpToRel(<, Nat))
  BY NatLessThanWellFounded, WFMin
<1>2. PICK x \in S : \A y \in S : ~(<<y, x>> \in OpToRel(<, Nat))
  BY <1>1
<1>3. \A y \in S : ~(y < x)
  BY <1>2, Zenon DEF OpToRel
<1>4. \A y \in S : x <= y
  BY <1>3
<1> QED
  BY <1>4

Associate(s, t, u) == (s \o t) \o u = s \o (t \o u)

LEMMA Associative ==
  ASSUME NEW B, NEW s \in Seq(B), NEW t \in Seq(B), NEW u \in Seq(B)
  PROVE  Associate(s, t, u)
  BY ConcatAssociative DEF Associate
-----------------------------------------------------------------------------
(***************************************************************************)
(* What FlattenSeq computes: f holds the concatenations of the prefixes.   *)
(***************************************************************************)
Flattens(f, s) ==
  f = [i \in 1 .. Len(s) |-> IF i = 1 THEN s[i] ELSE f[i - 1] \o s[i]]

LEMMA FlattensExists ==
  ASSUME NEW B, NEW s \in Seq(Seq(B))
  PROVE  \E f \in [1 .. Len(s) -> Seq(B)] : Flattens(f, s)
<1> DEFINE P(n) == \E f \in [1 .. n -> Seq(B)] :
                     \A i \in 1 .. n : f[i] = IF i = 1 THEN s[i] ELSE f[i - 1] \o s[i]
           S == {n \in 0 .. Len(s) : ~P(n)}
<1>1. Len(s) \in Nat /\ \A i \in 1 .. Len(s) : s[i] \in Seq(B)
  OBVIOUS
<1>2. ASSUME NEW m \in S, \A n \in S : m <= n
      PROVE  FALSE
  <2>1. m \in 0 .. Len(s) /\ ~P(m)
    OBVIOUS
  <2>2. P(0)
    <3> DEFINE e == [i \in 1 .. 0 |-> <<>>]
    <3>1. e \in [1 .. 0 -> Seq(B)]
      OBVIOUS
    <3>2. \A i \in 1 .. 0 : e[i] = IF i = 1 THEN s[i] ELSE e[i - 1] \o s[i]
      OBVIOUS
    <3> HIDE DEF e
    <3> QED
      BY <3>1, <3>2, Zenon
  <2>3. m # 0 /\ m - 1 \in 0 .. Len(s) /\ ~(m <= m - 1)
    <3>1. m # 0
      BY <2>1, <2>2, Zenon
    <3> QED
      BY <1>1, <2>1, <3>1
  <2>4. P(m - 1)
    <3>1. m - 1 \notin S
      BY <1>2, <2>3, Zenon
    <3> HIDE DEF P
    <3> QED
      BY <2>3, <3>1, Zenon
  <2>5. PICK f \in [1 .. m - 1 -> Seq(B)] :
          \A i \in 1 .. m - 1 : f[i] = IF i = 1 THEN s[i] ELSE f[i - 1] \o s[i]
    BY <2>4
  <2> DEFINE last == IF m = 1 THEN s[m] ELSE f[m - 1] \o s[m]
             g == [i \in 1 .. m |-> IF i = m THEN last ELSE f[i]]
  <2>6. last \in Seq(B)
    <3>1. s[m] \in Seq(B)
      BY <1>1, <2>1, <2>3
    <3>2. CASE m = 1
      BY <3>1, <3>2
    <3>3. CASE m # 1
      <4>1. f[m - 1] \in Seq(B)
        BY <2>1, <2>3, <2>5, <3>3
      <4> QED
        BY <3>1, <3>3, <4>1, ConcatProperties
    <3> QED
      BY <3>2, <3>3
  <2>7. ASSUME NEW i \in 1 .. m
        PROVE  g[i] \in Seq(B) /\ g[i] = IF i = 1 THEN s[i] ELSE g[i - 1] \o s[i]
    <3>1. CASE i = m
      <4>1. i # 1 => g[i - 1] = f[m - 1]
        BY <2>1, <3>1
      <4> QED
        BY <2>6, <3>1, <4>1
    <3>2. CASE i # m
      <4>1. i \in 1 .. m - 1 /\ g[i] = f[i]
        BY <2>1, <3>2
      <4>2. i # 1 => g[i - 1] = f[i - 1]
        BY <2>1, <3>2
      <4> QED
        BY <2>5, <4>1, <4>2
    <3> QED
      BY <3>1, <3>2
  <2>8. g \in [1 .. m -> Seq(B)]
    BY <2>7
  <2> HIDE DEF g
  <2>9. P(m)
    BY <2>7, <2>8
  <2> QED
    BY <2>1, <2>9
<1>3. S \in SUBSET Nat
  BY <1>1
<1>4. S = {}
  <2> HIDE DEF S
  <2> QED
    BY <1>2, <1>3, LeastNat
<1>5. P(Len(s))
  <2>1. Len(s) \in 0 .. Len(s)
    BY <1>1
  <2> HIDE DEF P
  <2> QED
    BY <1>4, <2>1, Zenon
<1> QED
  BY <1>5 DEF Flattens

LEMMA FlattensUnique ==
  ASSUME NEW B, NEW s \in Seq(Seq(B)), NEW f, NEW g, Flattens(f, s), Flattens(g, s)
  PROVE  f = g
<1> DEFINE S == {i \in 1 .. Len(s) : f[i] # g[i]}
<1>1. /\ f = [i \in 1 .. Len(s) |-> f[i]] /\ g = [i \in 1 .. Len(s) |-> g[i]]
      /\ \A i \in 1 .. Len(s) : /\ f[i] = IF i = 1 THEN s[i] ELSE f[i - 1] \o s[i]
                                /\ g[i] = IF i = 1 THEN s[i] ELSE g[i - 1] \o s[i]
  BY DEF Flattens
<1>2. ASSUME NEW m \in S, \A n \in S : m <= n
      PROVE  FALSE
  <2>1. m \in 1 .. Len(s) /\ f[m] # g[m] /\ Len(s) \in Nat
    OBVIOUS
  <2>2. m # 1
    BY <1>1, <2>1
  <2>3. m - 1 \in 1 .. Len(s) /\ m - 1 \notin S
    BY <1>2, <2>1, <2>2
  <2>4. f[m - 1] = g[m - 1]
    BY <2>3
  <2>5. f[m] = f[m - 1] \o s[m] /\ g[m] = g[m - 1] \o s[m]
    BY <1>1, <2>1, <2>2
  <2> QED
    BY <2>1, <2>4, <2>5, Zenon
<1>3. S \in SUBSET Nat
  OBVIOUS
<1>4. S = {}
  <2> HIDE DEF S
  <2> QED
    BY <1>2, <1>3, LeastNat
<1> QED
  BY <1>1, <1>4

LEMMA FlattenIs ==
  ASSUME NEW B, NEW s \in Seq(Seq(B)), Len(s) # 0, NEW f, Flattens(f, s)
  PROVE  FlattenSeq(s) = f[Len(s)]
<1> DEFINE g == CHOOSE h : Flattens(h, s)
<1>1. Flattens(g, s)
  OBVIOUS
<1>2. g = f
  <2> HIDE DEF g
  <2> QED
    BY <1>1, FlattensUnique
<1>3. FlattenSeq(s) = g[Len(s)]
  BY DEF FlattenSeq, Flattens
<1> QED
  BY <1>2, <1>3

LEMMA FlattensFacts ==
  ASSUME NEW B, NEW s \in Seq(Seq(B)), NEW f, Flattens(f, s)
  PROVE  /\ Len(s) # 0 => f[1] = s[1]
         /\ \A i \in 1 .. Len(s) : i # 1 => f[i] = f[i - 1] \o s[i]
<1>1. \A i \in 1 .. Len(s) : f[i] = IF i = 1 THEN s[i] ELSE f[i - 1] \o s[i]
  BY Zenon DEF Flattens
<1>2. Len(s) # 0 => 1 \in 1 .. Len(s)
  OBVIOUS
<1>3. Len(s) # 0 => f[1] = s[1]
  BY <1>1, <1>2, Zenon
<1>4. \A i \in 1 .. Len(s) : i # 1 => f[i] = f[i - 1] \o s[i]
  BY <1>1, Zenon
<1> QED
  BY <1>3, <1>4, Zenon

LEMMA FlattenTyped ==
  ASSUME NEW B, NEW s \in Seq(Seq(B))
  PROVE  FlattenSeq(s) \in Seq(B) /\ (Len(s) = 0 => FlattenSeq(s) = <<>>)
<1>1. CASE Len(s) = 0
  <2>1. FlattenSeq(s) = s
    BY <1>1 DEF FlattenSeq
  <2>2. s = <<>>
    BY <1>1
  <2> QED
    BY <2>1, <2>2
<1>2. CASE Len(s) # 0
  <2>1. PICK f \in [1 .. Len(s) -> Seq(B)] : Flattens(f, s)
    BY FlattensExists
  <2>2. FlattenSeq(s) = f[Len(s)]
    BY <1>2, <2>1, FlattenIs
  <2>3. Len(s) \in 1 .. Len(s)
    BY <1>2
  <2> QED
    BY <1>2, <2>2, <2>3
<1> QED
  BY <1>1, <1>2

(* A sequence at the end. *)
LEMMA FlattenLast ==
  ASSUME NEW B, NEW s \in Seq(Seq(B)), NEW t \in Seq(Seq(B)),
         Len(t) = Len(s) + 1, \A i \in 1 .. Len(s) : t[i] = s[i]
  PROVE  FlattenSeq(t) = FlattenSeq(s) \o t[Len(t)]
<1> DEFINE n == Len(s)
<1>1. n \in Nat /\ Len(t) = n + 1 /\ t[n + 1] \in Seq(B) /\ Len(t) # 0
  OBVIOUS
<1>2. PICK g \in [1 .. Len(t) -> Seq(B)] : Flattens(g, t)
  BY FlattensExists
<1>3. FlattenSeq(t) = g[Len(t)]
  BY <1>1, <1>2, FlattenIs
<1>4. /\ g[1] = t[1]
      /\ \A i \in 1 .. Len(t) : i # 1 => g[i] = g[i - 1] \o t[i]
  BY <1>1, <1>2, FlattensFacts
<1>5. CASE n = 0
  <2>1. FlattenSeq(t) = t[n + 1] /\ FlattenSeq(s) = <<>>
    <3>1. n + 1 = 1
      BY <1>5
    <3> QED
      BY <1>1, <1>3, <1>4, <1>5, <3>1, FlattenTyped, Zenon
  <2> QED
    BY <1>1, <2>1, ConcatEmptySeq
<1>6. CASE n # 0
  <2> DEFINE f == [i \in 1 .. Len(s) |-> g[i]]
  <2>1. ASSUME NEW i \in 1 .. Len(s)
        PROVE  f[i] = IF i = 1 THEN s[i] ELSE f[i - 1] \o s[i]
    <3>1. i \in 1 .. Len(t)
      BY <1>1
    <3>2. f[i] = g[i] /\ t[i] = s[i] /\ (i # 1 => f[i - 1] = g[i - 1])
      BY <1>1
    <3> HIDE DEF f
    <3> QED
      BY <1>4, <3>1, <3>2, Zenon
  <2>2. f = [i \in 1 .. Len(s) |-> f[i]] /\ f[Len(s)] = g[n]
    BY <1>1, <1>6
  <2> HIDE DEF f
  <2>3. Flattens(f, s)
    BY <2>1, <2>2 DEF Flattens
  <2>4. FlattenSeq(s) = g[n]
    BY <1>6, <2>2, <2>3, FlattenIs
  <2>5. g[n + 1] = g[n] \o t[n + 1]
    <3>1. n + 1 \in 1 .. Len(t) /\ n + 1 # 1 /\ (n + 1) - 1 = n
      BY <1>1, <1>6
    <3> HIDE DEF n
    <3> QED
      BY <1>4, <3>1
  <2> QED
    BY <1>1, <1>3, <2>4, <2>5
<1> QED
  BY <1>5, <1>6

(* A sequence at the start. *)
LEMMA FlattenFirst ==
  ASSUME NEW B, NEW s \in Seq(Seq(B)), NEW t \in Seq(Seq(B)),
         Len(t) = Len(s) + 1, \A i \in 1 .. Len(s) : t[i + 1] = s[i]
  PROVE  FlattenSeq(t) = t[1] \o FlattenSeq(s)
<1> DEFINE n == Len(s)
<1>1. /\ n \in Nat /\ Len(t) = n + 1 /\ Len(t) # 0
      /\ \A i \in 1 .. n : s[i] \in Seq(B)
  OBVIOUS
<1>p. PICK p \in Seq(B) : p = t[1]
  OBVIOUS
<1>2. PICK f \in [1 .. Len(s) -> Seq(B)] : Flattens(f, s)
  BY FlattensExists
<1>3. /\ n # 0 => f[1] = s[1]
      /\ \A i \in 1 .. n : i # 1 => f[i] = f[i - 1] \o s[i]
  BY <1>1, <1>2, FlattensFacts
<1> DEFINE g == [i \in 1 .. Len(t) |-> IF i = 1 THEN p ELSE p \o f[i - 1]]
<1>4. ASSUME NEW i \in 1 .. Len(t)
      PROVE  g[i] = IF i = 1 THEN t[i] ELSE g[i - 1] \o t[i]
  <2>1. CASE i = 1
    BY <1>p, <2>1
  <2>2. CASE i # 1
    <3>1. i - 1 \in 1 .. n /\ i \in 2 .. n + 1 /\ (i - 1) + 1 = i
      BY <1>1, <2>2
    <3>2. t[i] = s[i - 1] /\ g[i] = p \o f[i - 1]
      BY <1>1, <2>2, <3>1
    <3>3. CASE i = 2
      <4>1. g[i - 1] = p /\ f[i - 1] = s[i - 1]
        <5>1. i - 1 = 1 /\ n # 0 /\ 1 \in 1 .. Len(t)
          BY <1>1, <3>1, <3>3
        <5>2. g[1] = p
          BY <5>1
        <5> HIDE DEF g
        <5> QED
          BY <1>3, <5>1, <5>2, Zenon
      <4> QED
        BY <2>2, <3>2, <4>1, Zenon
    <3>4. CASE i # 2
      <4> DEFINE j == i - 1
                 k == i - 2
      <4>1. k \in 1 .. n /\ j \in 1 .. n /\ j # 1 /\ j - 1 = k /\ j \in 1 .. Len(t)
        BY <1>1, <3>1, <3>4
      <4>2. f[j] = f[k] \o s[j] /\ g[j] = p \o f[k]
        BY <1>1, <1>3, <4>1
      <4>3. f[k] \in Seq(B) /\ s[j] \in Seq(B)
        BY <1>1, <1>2, <4>1
      <4> HIDE DEF j, k
      <4>4. Associate(p, f[k], s[j])
        BY <4>3, Associative, Zenon
      <4>5. g[i] = g[j] \o t[i]
        <5>1. g[i] = p \o f[j] /\ t[i] = s[j]
          BY <3>2 DEF j
        <5> HIDE DEF g
        <5> QED
          BY <4>2, <4>4, <5>1, Zenon DEF Associate
      <4> QED
        BY <2>2, <4>5, Zenon DEF j
    <3> QED
      BY <3>3, <3>4
  <2> QED
    BY <2>1, <2>2
<1>5. g = [i \in 1 .. Len(t) |-> g[i]]
  OBVIOUS
<1>6. Flattens(g, t)
  <2> HIDE DEF g
  <2> QED
    BY <1>4, <1>5 DEF Flattens
<1>7. FlattenSeq(t) = g[Len(t)]
  <2> HIDE DEF g
  <2> QED
    BY <1>1, <1>6, FlattenIs
<1>8. CASE n = 0
  <2>1. FlattenSeq(t) = p /\ FlattenSeq(s) = <<>>
    <3>1. g[Len(t)] = p
      BY <1>1, <1>8
    <3> HIDE DEF g
    <3> QED
      BY <1>7, <1>8, <3>1, FlattenTyped, Zenon
  <2> QED
    BY <1>p, <2>1, ConcatEmptySeq
<1>9. CASE n # 0
  <2>1. FlattenSeq(s) = f[n]
    BY <1>2, <1>9, FlattenIs
  <2>2. g[Len(t)] = p \o f[n]
    BY <1>1, <1>9
  <2> QED
    BY <1>p, <1>7, <2>1, <2>2, Zenon
<1> QED
  BY <1>8, <1>9
-----------------------------------------------------------------------------
(***************************************************************************)
(* Bytes that move from the start of one sequence to the end of another.   *)
(***************************************************************************)
LEMMA CutInTwo ==
  ASSUME NEW B, NEW t \in Seq(B), NEW k \in 0 .. Len(t)
  PROVE  /\ SubSeq(t, 1, k) \in Seq(B) /\ Len(SubSeq(t, 1, k)) = k
         /\ SubSeq(t, k + 1, Len(t)) \in Seq(B)
         /\ Len(SubSeq(t, k + 1, Len(t))) = Len(t) - k
         /\ SubSeq(t, 1, k) \o SubSeq(t, k + 1, Len(t)) = t
<1>1. /\ \A i \in 1 .. k : t[i] \in B
      /\ \A i \in k + 1 .. Len(t) : t[i] \in B
      /\ Len(t) \in Nat /\ k \in Int /\ k + 1 \in Int /\ Len(t) \in Int /\ 1 \in Int
  OBVIOUS
<1>2. SubSeq(t, 1, k) \in Seq(B) /\ Len(SubSeq(t, 1, k)) = IF 1 <= k THEN k - 1 + 1 ELSE 0
  BY <1>1, SubSeqProperties
<1>3. /\ SubSeq(t, k + 1, Len(t)) \in Seq(B)
      /\ Len(SubSeq(t, k + 1, Len(t)))
           = IF k + 1 <= Len(t) THEN Len(t) - (k + 1) + 1 ELSE 0
  BY <1>1, SubSeqProperties
<1>4. SubSeq(t, 1, k) \o SubSeq(t, k + 1, Len(t)) = SubSeq(t, 1, Len(t))
  <2>1. 1 \in 1 .. Len(t) + 1 /\ k \in 1 - 1 .. Len(t) /\ Len(t) \in k .. Len(t)
    BY <1>1
  <2> QED
    BY <2>1, ConcatAdjacentSubSeq
<1>5. SubSeq(t, 1, Len(t)) = t
  BY SubSeqFull
<1>6. Len(SubSeq(t, 1, k)) = k /\ Len(SubSeq(t, k + 1, Len(t))) = Len(t) - k
  BY <1>1, <1>2, <1>3
<1> QED
  BY <1>2, <1>3, <1>4, <1>5, <1>6, Zenon

LEMMA Shifted ==
  ASSUME NEW B, NEW s \in Seq(B), NEW t \in Seq(B), NEW k \in 0 .. Len(t)
  PROVE  /\ s \o SubSeq(t, 1, k) \in Seq(B)
         /\ Len(s \o SubSeq(t, 1, k)) = Len(s) + k
         /\ (s \o SubSeq(t, 1, k)) \o SubSeq(t, k + 1, Len(t)) = s \o t
<1> DEFINE x == SubSeq(t, 1, k)
           y == SubSeq(t, k + 1, Len(t))
<1>1. x \in Seq(B) /\ Len(x) = k
  BY CutInTwo
<1>2. y \in Seq(B) /\ x \o y = t
  BY CutInTwo
<1> HIDE DEF x, y
<1>3. Associate(s, x, y)
  BY <1>1, <1>2, Associative
<1>4. s \o x \in Seq(B) /\ Len(s \o x) = Len(s) + k
  BY <1>1, ConcatProperties
<1>5. (s \o x) \o y = s \o t
  BY <1>2, <1>3, Zenon DEF Associate
<1> QED
  BY <1>4, <1>5, Zenon DEF x, y

LEMMA SameStart ==
  ASSUME NEW B, NEW x \in Seq(B), NEW p \in Seq(B), NEW y \in Seq(B), NEW r \in Seq(B),
         x \o y = p \o r, Len(x) = Len(p)
  PROVE  x = p /\ y = r
<1> DEFINE n == Len(p)
<1>1. n \in Nat /\ Len(x) = n /\ Len(y) \in Nat /\ Len(r) \in Nat
  OBVIOUS
<1>2. /\ Len(x \o y) = n + Len(y) /\ Len(p \o r) = n + Len(r)
      /\ \A i \in 1 .. n + Len(y) : (x \o y)[i] = IF i <= n THEN x[i] ELSE y[i - n]
      /\ \A i \in 1 .. n + Len(r) : (p \o r)[i] = IF i <= n THEN p[i] ELSE r[i - n]
  <2>1. /\ Len(x \o y) = Len(x) + Len(y)
        /\ \A i \in 1 .. Len(x) + Len(y) :
             (x \o y)[i] = IF i <= Len(x) THEN x[i] ELSE y[i - Len(x)]
    BY ConcatProperties, Zenon
  <2>2. /\ Len(p \o r) = Len(p) + Len(r)
        /\ \A i \in 1 .. Len(p) + Len(r) :
             (p \o r)[i] = IF i <= Len(p) THEN p[i] ELSE r[i - Len(p)]
    BY ConcatProperties, Zenon
  <2> QED
    BY <2>1, <2>2, Zenon
<1>3. Len(y) = Len(r)
  BY <1>1, <1>2
<1>4. ASSUME NEW i \in 1 .. n PROVE x[i] = p[i]
  <2>1. i \in 1 .. n + Len(y) /\ i \in 1 .. n + Len(r) /\ i <= n
    BY <1>1
  <2> QED
    BY <1>2, <2>1
<1>5. ASSUME NEW i \in 1 .. Len(y) PROVE y[i] = r[i]
  <2>1. n + i \in 1 .. n + Len(y) /\ ~(n + i <= n) /\ (n + i) - n = i
    BY <1>1
  <2>2. n + i \in 1 .. n + Len(r)
    BY <1>3, <2>1
  <2>3. (x \o y)[n + i] = y[i] /\ (p \o r)[n + i] = r[i]
    BY <1>2, <2>1, <2>2
  <2> QED
    BY <2>3
<1>6. x = p
  BY <1>1, <1>4, SeqEqual
<1>7. y = r
  BY <1>3, <1>5, SeqEqual
<1> QED
  BY <1>6, <1>7

(* The first packet p of a stream that starts in the buffer a. *)
LEMMA FirstIsCut ==
  ASSUME NEW B, NEW a \in Seq(B), NEW w \in Seq(B), NEW n \in Seq(B),
         NEW p \in Seq(B), NEW r \in Seq(B),
         (a \o w) \o n = p \o r, Len(p) <= Len(a)
  PROVE  /\ SubSeq(a, 1, Len(p)) = p
         /\ (SubSeq(a, Len(p) + 1, Len(a)) \o w) \o n = r
<1>1. Len(p) \in 0 .. Len(a)
  OBVIOUS
<1> DEFINE x == SubSeq(a, 1, Len(p))
           y == SubSeq(a, Len(p) + 1, Len(a))
           z == (y \o w) \o n
<1>2. x \in Seq(B) /\ Len(x) = Len(p)
  BY <1>1, CutInTwo
<1>3. y \in Seq(B) /\ x \o y = a
  BY <1>1, CutInTwo
<1> HIDE DEF x, y
<1>4. y \o w \in Seq(B)
  BY <1>3, ConcatProperties, Zenon
<1>5. z \in Seq(B)
  BY <1>4, ConcatProperties, Zenon
<1>6. Associate(x, y, w) /\ Associate(x, y \o w, n)
  BY <1>2, <1>3, <1>4, Associative, Zenon
<1>7. x \o z = p \o r
  BY <1>3, <1>6, Zenon DEF Associate
<1> HIDE DEF z
<1>8. x = p /\ z = r
  BY <1>2, <1>5, <1>7, SameStart
<1> QED
  BY <1>8, Zenon DEF x, y, z

LEMMA FunctionIsSeq ==
  ASSUME NEW S, NEW n \in Nat, NEW f \in [1 .. n -> S]
  PROVE  f \in Seq(S) /\ Len(f) = n
  OBVIOUS

LEMMA PacketFacts ==
  ASSUME NEW l \in Nat
  PROVE  /\ Packet(l) \in Seq(Byte) /\ Len(Packet(l)) = l
         /\ l # 0 => Packet(l)[1] = <<l, 1>>
<1>1. Packet(l) \in [1 .. l -> Byte]
  BY DEF Packet, Byte
<1>2. Packet(l) \in Seq(Byte) /\ Len(Packet(l)) = l
  BY <1>1
<1>3. l # 0 => Packet(l)[1] = <<l, 1>>
  BY DEF Packet
<1> QED
  BY <1>2, <1>3

LEMMA LensFacts == \A l \in Lens : l \in Nat /\ l # 0 /\ l >= Hdr
  BY SizesAssumption

(* What TypeOK says of the packets. *)
PacketsTyped ==
  /\ Coming \in Seq(Seq(Byte)) /\ Len(Coming) = Len(sent) - Len(got)
  /\ Len(sent) \in Nat /\ Len(got) \in Nat
  /\ \A i \in 1 .. Len(sent) - Len(got) :
       /\ Len(got) + i \in 1 .. Len(sent) /\ sent[Len(got) + i] \in Lens
       /\ Coming[i] = Packet(sent[Len(got) + i])
  /\ Packets \in Seq(Seq(Byte)) /\ Len(Packets) = Len(sent)
  /\ \A i \in 1 .. Len(sent) : Packets[i] = Packet(sent[i]) /\ sent[i] \in Lens
  /\ FlattenSeq(Coming) \in Seq(Byte) /\ FlattenSeq(Packets) \in Seq(Byte)
  /\ FlattenSeq(got) \in Seq(Byte)
  /\ Len(sent) = Len(got) => FlattenSeq(Coming) = <<>>
  /\ Len(sent) = 0 => FlattenSeq(Packets) = <<>>
  /\ Len(got) = 0 => FlattenSeq(got) = <<>>

LEMMA ComingFacts == TypeOK => PacketsTyped
<1> SUFFICES ASSUME TypeOK PROVE PacketsTyped
  OBVIOUS
<1>1. /\ sent \in Seq(Lens) /\ got \in Seq(Seq(Byte)) /\ Len(got) <= Len(sent)
      /\ Len(sent) \in Nat /\ Len(got) \in Nat /\ DOMAIN sent = 1 .. Len(sent)
      /\ \A i \in 1 .. Len(sent) : sent[i] \in Lens
  BY DEF TypeOK
<1>2. \A l \in Lens : Packet(l) \in Seq(Byte)
  BY PacketFacts, LensFacts
<1>3. \A i \in 1 .. Len(sent) - Len(got) :
         Len(got) + i \in 1 .. Len(sent) /\ sent[Len(got) + i] \in Lens
  BY <1>1
<1>4. Coming \in [1 .. Len(sent) - Len(got) -> Seq(Byte)]
  BY <1>2, <1>3 DEF Coming
<1>5. Packets \in [1 .. Len(sent) -> Seq(Byte)]
  BY <1>1, <1>2 DEF Packets
<1>6. Coming \in Seq(Seq(Byte)) /\ Len(Coming) = Len(sent) - Len(got)
  <2>1. Len(sent) - Len(got) \in Nat
    BY <1>1
  <2> QED
    BY <1>4, <2>1, FunctionIsSeq
<1>7. Packets \in Seq(Seq(Byte)) /\ Len(Packets) = Len(sent)
  BY <1>1, <1>5, FunctionIsSeq
<1>8. \A i \in 1 .. Len(sent) - Len(got) : Coming[i] = Packet(sent[Len(got) + i])
  BY DEF Coming
<1>9. \A i \in 1 .. Len(sent) : Packets[i] = Packet(sent[i])
  BY <1>1 DEF Packets
<1>10. /\ FlattenSeq(Coming) \in Seq(Byte) /\ FlattenSeq(Packets) \in Seq(Byte)
       /\ FlattenSeq(got) \in Seq(Byte)
       /\ Len(sent) = Len(got) => FlattenSeq(Coming) = <<>>
       /\ Len(sent) = 0 => FlattenSeq(Packets) = <<>>
       /\ Len(got) = 0 => FlattenSeq(got) = <<>>
  <2>1. Len(sent) = Len(got) => Len(Coming) = 0
    BY <1>1, <1>6
  <2> QED
    BY <1>1, <1>6, <1>7, <2>1, FlattenTyped, Zenon
<1> QED
  BY <1>1, <1>3, <1>6, <1>7, <1>8, <1>9, <1>10, Zenon DEF PacketsTyped

LEMMA ComingFactsNext == TypeOK' => PacketsTyped'
  BY ComingFacts, PTL

(* The packets behind the next one. *)
Later == [i \in 1 .. Len(sent) - (Len(got) + 1) |-> Packet(sent[(Len(got) + 1) + i])]

LEMMA NextAndLater ==
  ASSUME TypeOK, Len(got) < Len(sent)
  PROVE  /\ Later \in Seq(Seq(Byte)) /\ FlattenSeq(Later) \in Seq(Byte)
         /\ sent[Len(got) + 1] \in Lens /\ Packet(sent[Len(got) + 1]) \in Seq(Byte)
         /\ FlattenSeq(Coming) = Packet(sent[Len(got) + 1]) \o FlattenSeq(Later)
<1> DEFINE n == Len(sent) - (Len(got) + 1)
<1>1. PacketsTyped
  BY ComingFacts
<1>2. Len(sent) \in Nat /\ Len(got) \in Nat /\ n \in Nat /\ Len(Coming) = n + 1
  BY <1>1 DEF PacketsTyped
<1>3. \A i \in 1 .. n : sent[(Len(got) + 1) + i] \in Lens
  BY <1>1, <1>2 DEF PacketsTyped
<1>4. \A l \in Lens : Packet(l) \in Seq(Byte)
  BY PacketFacts, LensFacts
<1>5. Later \in [1 .. n -> Seq(Byte)]
  BY <1>3, <1>4 DEF Later
<1>6. Later \in Seq(Seq(Byte)) /\ Len(Later) = n
  BY <1>2, <1>5, FunctionIsSeq
<1>7. 1 \in 1 .. Len(sent) - Len(got)
  BY <1>2
<1>8. sent[Len(got) + 1] \in Lens /\ Coming[1] = Packet(sent[Len(got) + 1])
  BY <1>1, <1>7 DEF PacketsTyped
<1>9. ASSUME NEW i \in 1 .. Len(Later) PROVE Coming[i + 1] = Later[i]
  <2>1. i + 1 \in 1 .. Len(sent) - Len(got) /\ i \in 1 .. n
        /\ Len(got) + (i + 1) = (Len(got) + 1) + i
    BY <1>2, <1>6
  <2>2. Coming[i + 1] = Packet(sent[Len(got) + (i + 1)])
    BY <1>1, <2>1 DEF PacketsTyped
  <2>3. Later[i] = Packet(sent[(Len(got) + 1) + i])
    BY <2>1 DEF Later
  <2> QED
    BY <2>1, <2>2, <2>3
<1>10. Coming \in Seq(Seq(Byte)) /\ Len(Coming) = Len(Later) + 1
  BY <1>1, <1>2, <1>6 DEF PacketsTyped
<1>11. FlattenSeq(Coming) = Coming[1] \o FlattenSeq(Later)
  BY <1>6, <1>9, <1>10, FlattenFirst
<1>12. FlattenSeq(Later) \in Seq(Byte)
  BY <1>6, FlattenTyped
<1> QED
  BY <1>4, <1>6, <1>8, <1>11, <1>12, Zenon

(* The length that net_recv finds is that of the next packet, and a buffer *)
(* with a header in it has one.                                            *)
LEMMA NextPacketIs ==
  ASSUME RecvInv, conn = "open"
  PROVE  /\ ProtLen \in Nat
         /\ ProtLen # 0 => Len(got) < Len(sent) /\ ProtLen = sent[Len(got) + 1]
         /\ Len(buf) >= Hdr => ProtLen # 0
<1>1. /\ TypeOK /\ PacketsTyped /\ (buf \o wire) \o net = FlattenSeq(Coming)
      /\ prot # 0 => Len(got) < Len(sent) /\ prot = sent[Len(got) + 1]
      /\ prot \in Nat
  BY ComingFacts DEF RecvInv, StreamInv, FrameInv, TypeOK
<1>2. /\ buf \in Seq(Byte) /\ wire \in Seq(Byte) /\ net \in Seq(Byte)
      /\ Len(buf) \in Nat /\ Len(wire) \in Nat /\ Len(net) \in Nat /\ Hdr \in Nat /\ Hdr > 0
      /\ Len(sent) \in Nat /\ Len(got) \in Nat /\ Len(got) <= Len(sent)
  BY <1>1, SizesAssumption DEF TypeOK
<1>3. CASE prot # 0
  BY <1>1, <1>3 DEF ProtLen
<1>4. CASE prot = 0 /\ ~(Len(buf) >= Hdr)
  <2>1. ProtLen = 0
    BY <1>2, <1>4 DEF ProtLen, GetPkgLen
  <2> QED
    BY <1>4, <2>1
<1>5. CASE prot = 0 /\ Len(buf) >= Hdr
  <2>1. ProtLen = buf[1][1]
    BY <1>2, <1>5 DEF ProtLen, GetPkgLen
  <2>2. buf \o wire \in Seq(Byte) /\ Len(buf \o wire) = Len(buf) + Len(wire)
    BY <1>2, ConcatProperties
  <2>3. /\ Len((buf \o wire) \o net) = Len(buf) + Len(wire) + Len(net)
        /\ ((buf \o wire) \o net)[1] = buf[1]
    <3>1. 1 \in 1 .. Len(buf) + Len(wire) /\ 1 <= Len(buf)
          /\ 1 \in 1 .. Len(buf \o wire) + Len(net) /\ 1 <= Len(buf \o wire)
      BY <1>2, <1>5, <2>2
    <3>2. /\ Len((buf \o wire) \o net) = Len(buf \o wire) + Len(net)
          /\ ((buf \o wire) \o net)[1] = (buf \o wire)[1]
      BY <1>2, <2>2, <3>1, ConcatProperties
    <3>3. (buf \o wire)[1] = buf[1]
      BY <1>2, <3>1, ConcatProperties
    <3> QED
      BY <2>2, <3>2, <3>3
  <2>4. Len(got) < Len(sent)
    <3>1. SUFFICES ASSUME Len(got) = Len(sent) PROVE FALSE
      BY <1>2
    <3>2. FlattenSeq(Coming) = <<>>
      BY <1>1, <3>1 DEF PacketsTyped
    <3>3. Len(FlattenSeq(Coming)) = 0
      BY <3>2
    <3> QED
      BY <1>1, <1>2, <1>5, <2>3, <3>3
  <2> DEFINE l == sent[Len(got) + 1]
  <2>5. /\ l \in Lens /\ Packet(l) \in Seq(Byte) /\ FlattenSeq(Later) \in Seq(Byte)
        /\ FlattenSeq(Coming) = Packet(l) \o FlattenSeq(Later)
    BY <1>1, <2>4, NextAndLater
  <2> HIDE DEF l
  <2>6. l \in Nat /\ l # 0 /\ Len(Packet(l)) = l /\ Packet(l)[1] = <<l, 1>>
    BY <2>5, LensFacts, PacketFacts
  <2>7. FlattenSeq(Coming)[1] = Packet(l)[1]
    <3> DEFINE a == Packet(l)
               b == FlattenSeq(Later)
    <3>1. a \in Seq(Byte) /\ b \in Seq(Byte) /\ Len(a) = l
      BY <2>5, <2>6
    <3> HIDE DEF a, b
    <3>2. 1 \in 1 .. Len(a) + Len(b) /\ 1 <= Len(a)
      BY <2>6, <3>1
    <3>3. (a \o b)[1] = a[1]
      BY <3>1, <3>2, ConcatProperties
    <3> QED
      BY <2>5, <3>3, Zenon DEF a, b
  <2>8. buf[1] = <<l, 1>>
    BY <1>1, <2>3, <2>6, <2>7, Zenon
  <2>9. ProtLen = l
    BY <2>1, <2>8
  <2> QED
    BY <2>4, <2>6, <2>9 DEF l
<1> QED
  BY <1>3, <1>4, <1>5
-----------------------------------------------------------------------------
(***************************************************************************)
(* The steps.                                                              *)
(***************************************************************************)

(* do_del_conn *)
LEMMA DelKeeps ==
  ASSUME RecvInv, Del, at' \in {"etin", "wait"}, evt' \in BOOLEAN, is_parent' = is_parent
  PROVE  RecvInv'
<1>1. /\ conn' = "closed" /\ buf' = <<>> /\ off' = 0
      /\ etin' = FALSE /\ closing' = FALSE
      /\ net' = <<>> /\ wire' = <<>> /\ eof' = FALSE /\ edge' = FALSE
      /\ UNCHANGED <<conns, prot, sent, got>>
  BY DEF Del
<1>2. TypeOK'
  <2>1. TypeOK
    BY DEF RecvInv
  <2>2. /\ etin' \in BOOLEAN /\ closing' \in BOOLEAN /\ eof' \in BOOLEAN
        /\ edge' \in BOOLEAN /\ is_parent' \in BOOLEAN
    BY <1>1, <2>1, Zenon DEF TypeOK
  <2>3. buf' \in Seq(Byte) /\ wire' \in Seq(Byte) /\ net' \in Seq(Byte) /\ off' \in Nat
    BY <1>1
  <2>4. /\ conn' \in {"none", "open", "closed"} /\ conns' \in Nat /\ prot' \in Nat
        /\ at' \in {"etin", "wait", "parse", "rest", "exited", "garbled"}
        /\ sent' \in Seq(Lens) /\ got' \in Seq(Seq(Byte)) /\ Len(got') <= Len(sent')
    BY <1>1, <2>1 DEF TypeOK
  <2> QED
    BY <2>2, <2>3, <2>4, Zenon DEF TypeOK
<1>3. EntryInv' /\ StreamInv' /\ FrameInv' /\ UnreadIsKept'
  BY <1>1 DEF EntryInv, StreamInv, FrameInv, UnreadIsKept
<1>4. SplitInv'
  BY <1>1 DEF RecvInv, SplitInv, Coming, Packets
<1>5. RoomInv'
  <2>1. Len(buf') = 0
    BY <1>1
  <2> QED
    BY <2>1, SizesAssumption DEF RoomInv, BufferHasRoom
<1> QED
  BY <1>2, <1>3, <1>4, <1>5 DEF RecvInv

(* An entry without history: the beginning, and do_add_conn. *)
LEMMA EmptyEntry ==
  sent = <<>> /\ got = <<>> /\ TypeOK => SplitInv /\ FlattenSeq(Coming) = <<>>
<1> SUFFICES ASSUME sent = <<>>, got = <<>>, TypeOK
             PROVE  SplitInv /\ FlattenSeq(Coming) = <<>>
  OBVIOUS
<1>1. PacketsTyped /\ Len(sent) = 0 /\ Len(got) = 0
  BY ComingFacts
<1>2. FlattenSeq(Coming) = <<>> /\ FlattenSeq(got) = <<>> /\ FlattenSeq(Packets) = <<>>
  BY <1>1 DEF PacketsTyped
<1>3. DOMAIN got = {}
  OBVIOUS
<1>4. <<>> \o <<>> = <<>>
  OBVIOUS
<1>5. SplitInv
  BY <1>2, <1>3, <1>4, Zenon DEF SplitInv
<1> QED
  BY <1>2, <1>5

LEMMA EmptyEntryNext ==
  (sent = <<>> /\ got = <<>> /\ TypeOK => SplitInv /\ FlattenSeq(Coming) = <<>>)'
  BY EmptyEntry, PTL

LEMMA FreshKeeps ==
  ASSUME RecvInv, Fresh, at' \in {"etin", "wait"}, evt' = evt, is_parent' = is_parent
  PROVE  RecvInv'
<1>1. /\ conn' = "open" /\ buf' = <<>> /\ off' = 0 /\ prot' = 0
      /\ etin' = FALSE /\ closing' = FALSE
      /\ net' = <<>> /\ wire' = <<>> /\ eof' = FALSE /\ edge' = FALSE
      /\ sent' = <<>> /\ got' = <<>> /\ conns' = conns + 1
  BY DEF Fresh
<1>2. TypeOK'
  <2>1. TypeOK
    BY DEF RecvInv
  <2>2. /\ etin' \in BOOLEAN /\ closing' \in BOOLEAN /\ eof' \in BOOLEAN
        /\ edge' \in BOOLEAN /\ is_parent' \in BOOLEAN /\ evt' \in BOOLEAN
    BY <1>1, <2>1, Zenon DEF TypeOK
  <2>3. /\ buf' \in Seq(Byte) /\ wire' \in Seq(Byte) /\ net' \in Seq(Byte)
        /\ off' \in Nat /\ prot' \in Nat /\ sent' \in Seq(Lens) /\ got' \in Seq(Seq(Byte))
        /\ Len(got') <= Len(sent')
    BY <1>1
  <2>4. /\ conn' \in {"none", "open", "closed"} /\ conns' \in Nat
        /\ at' \in {"etin", "wait", "parse", "rest", "exited", "garbled"}
    BY <1>1, <2>1 DEF TypeOK
  <2> QED
    BY <2>2, <2>3, <2>4, Zenon DEF TypeOK
<1>3. EntryInv' /\ FrameInv' /\ UnreadIsKept'
  BY <1>1 DEF EntryInv, FrameInv, UnreadIsKept
<1>4. SplitInv' /\ FlattenSeq(Coming)' = <<>>
  BY <1>1, <1>2, EmptyEntryNext
<1>5. StreamInv'
  <2>1. <<>> \o <<>> \o <<>> = <<>>
    OBVIOUS
  <2> QED
    BY <1>1, <1>4, <2>1, Zenon DEF StreamInv
<1>6. RoomInv'
  <2>1. Len(buf') = 0
    BY <1>1
  <2> QED
    BY <2>1, SizesAssumption DEF RoomInv, BufferHasRoom
<1> QED
  BY <1>2, <1>3, <1>4, <1>5, <1>6 DEF RecvInv

(* A packet more on its way. *)
LEMMA PeerSendKeeps ==
  ASSUME RecvInv, NEW l \in Lens, PeerSend(l)
  PROVE  RecvInv'
<1> DEFINE p == Packet(l)
<1>1. /\ conn = "open" /\ sent' = Append(sent, l) /\ net' = net \o p
      /\ UNCHANGED <<is_parent, conn, conns, buf, off, prot, etin, closing, at, evt, wire, eof,
                     edge, got>>
  BY DEF PeerSend, buffer
<1>2. /\ TypeOK /\ PacketsTyped /\ sent \in Seq(Lens) /\ got \in Seq(Seq(Byte))
      /\ Len(sent) \in Nat /\ Len(got) \in Nat /\ Len(got) <= Len(sent)
      /\ buf \in Seq(Byte) /\ wire \in Seq(Byte) /\ net \in Seq(Byte)
  BY ComingFacts DEF RecvInv, TypeOK
<1>3. p \in Seq(Byte)
  BY LensFacts, PacketFacts
<1> HIDE DEF p
<1>4. /\ sent' \in Seq(Lens) /\ Len(sent') = Len(sent) + 1
      /\ sent'[Len(sent) + 1] = l /\ \A i \in 1 .. Len(sent) : sent'[i] = sent[i]
  BY <1>1, <1>2
<1>5. net' \in Seq(Byte)
  BY <1>1, <1>2, <1>3, ConcatProperties
<1>6. TypeOK'
  <2>1. Len(got') <= Len(sent')
    BY <1>1, <1>2, <1>4
  <2> QED
    BY <1>1, <1>2, <1>4, <1>5, <2>1, Zenon DEF TypeOK
<1>7. PacketsTyped'
  BY <1>6, ComingFactsNext
<1>8. FlattenSeq(Coming)' = FlattenSeq(Coming) \o p
  <2>1. /\ Coming \in Seq(Seq(Byte)) /\ Coming' \in Seq(Seq(Byte))
        /\ Len(Coming) = Len(sent) - Len(got) /\ Len(Coming') = Len(Coming) + 1
    BY <1>1, <1>2, <1>4, <1>7 DEF PacketsTyped
  <2>2. ASSUME NEW i \in 1 .. Len(Coming) PROVE Coming'[i] = Coming[i]
    <3>1. /\ i \in 1 .. Len(sent) - Len(got) /\ i \in 1 .. Len(sent') - Len(got')
          /\ Len(got) + i \in 1 .. Len(sent) /\ Len(got') = Len(got)
      BY <1>1, <1>2, <1>4, <2>1
    <3>2. Coming[i] = Packet(sent[Len(got) + i])
      BY <1>2, <3>1 DEF PacketsTyped
    <3>3. Coming'[i] = Packet(sent'[Len(got) + i])
      BY <1>7, <3>1 DEF PacketsTyped
    <3> QED
      BY <1>4, <3>1, <3>2, <3>3, Zenon
  <2>3. Coming'[Len(Coming')] = p
    <3> DEFINE k == Len(sent') - Len(got')
    <3>1. /\ k \in 1 .. Len(sent') - Len(got') /\ Len(got') + k = Len(sent) + 1
          /\ Len(Coming') = k
      BY <1>1, <1>2, <1>4, <2>1
    <3> HIDE DEF k
    <3>2. Coming'[k] = Packet(sent'[Len(got') + k])
      BY <1>7, <3>1 DEF PacketsTyped
    <3> QED
      BY <1>4, <3>1, <3>2 DEF p
  <2>4. FlattenSeq(Coming') = FlattenSeq(Coming) \o Coming'[Len(Coming')]
    BY <2>1, <2>2, FlattenLast
  <2> QED
    BY <2>3, <2>4
<1>9. FlattenSeq(Packets)' = FlattenSeq(Packets) \o p
  <2>1. /\ Packets \in Seq(Seq(Byte)) /\ Packets' \in Seq(Seq(Byte))
        /\ Len(Packets) = Len(sent) /\ Len(Packets') = Len(sent) + 1
    BY <1>2, <1>4, <1>7 DEF PacketsTyped
  <2>2. ASSUME NEW i \in 1 .. Len(Packets) PROVE Packets'[i] = Packets[i]
    <3>1. i \in 1 .. Len(sent) /\ i \in 1 .. Len(sent')
      BY <1>2, <1>4, <2>1
    <3>2. Packets[i] = Packet(sent[i]) /\ Packets'[i] = Packet(sent'[i])
      BY <1>2, <1>7, <3>1 DEF PacketsTyped
    <3> QED
      BY <1>4, <3>1, <3>2, Zenon
  <2>3. Packets'[Len(Packets')] = p
    <3>1. Len(sent) + 1 \in 1 .. Len(sent')
      BY <1>2, <1>4
    <3>2. Packets'[Len(sent) + 1] = Packet(sent'[Len(sent) + 1])
      BY <1>7, <3>1 DEF PacketsTyped
    <3> QED
      BY <1>4, <2>1, <3>2 DEF p
  <2>4. FlattenSeq(Packets') = FlattenSeq(Packets) \o Packets'[Len(Packets')]
    BY <2>1, <2>2, FlattenLast
  <2> QED
    BY <2>3, <2>4
<1>10. SplitInv'
  <2>1. \A i \in DOMAIN got' : got'[i] = Packet(sent'[i])
    <3>1. DOMAIN got = 1 .. Len(got)
      BY <1>2
    <3>2. \A i \in DOMAIN got : i \in 1 .. Len(sent)
      BY <1>2, <3>1
    <3>3. \A i \in DOMAIN got : got[i] = Packet(sent[i])
      BY DEF RecvInv, SplitInv
    <3> QED
      BY <1>1, <1>4, <3>2, <3>3, Zenon
  <2>2. Associate(FlattenSeq(got), FlattenSeq(Coming), p)
    BY <1>2, <1>3, Associative, Zenon DEF PacketsTyped
  <2>3. FlattenSeq(got) \o FlattenSeq(Coming) = FlattenSeq(Packets)
    BY DEF RecvInv, SplitInv
  <2>4. FlattenSeq(got)' = FlattenSeq(got)
    BY <1>1, Zenon
  <2>5. FlattenSeq(got)' \o FlattenSeq(Coming)' = FlattenSeq(Packets)'
    BY <1>8, <1>9, <2>2, <2>3, <2>4, Zenon DEF Associate
  <2> QED
    BY <2>1, <2>5, Zenon DEF SplitInv
<1>11. StreamInv'
  <2>1. buf \o wire \in Seq(Byte)
    BY <1>2, ConcatProperties
  <2>2. Associate(buf \o wire, net, p)
    BY <1>2, <1>3, <2>1, Associative, Zenon
  <2>3. (buf \o wire) \o net = FlattenSeq(Coming)
    BY <1>1 DEF RecvInv, StreamInv
  <2>4. (buf' \o wire') \o net' = FlattenSeq(Coming)'
    BY <1>1, <1>8, <2>2, <2>3, Zenon DEF Associate
  <2> QED
    BY <2>4, Zenon DEF StreamInv
<1>12. FrameInv'
  <2>1. prot # 0 => Len(got) < Len(sent) /\ prot = sent[Len(got) + 1]
    BY <1>1 DEF RecvInv, FrameInv
  <2>2. Len(got) < Len(sent) => Len(got) + 1 \in 1 .. Len(sent) /\ Len(got) < Len(sent')
    BY <1>2, <1>4
  <2> QED
    BY <1>1, <1>4, <2>1, <2>2, Zenon DEF FrameInv
<1>13. EntryInv' /\ RoomInv' /\ UnreadIsKept'
  BY <1>1 DEF RecvInv, EntryInv, RoomInv, BufferHasRoom, UnreadIsKept
<1> QED
  BY <1>6, <1>10, <1>11, <1>12, <1>13 DEF RecvInv

(* Steps that leave the packets alone. *)
LEMMA HistoryKept ==
  ASSUME RecvInv, UNCHANGED <<sent, got>>
  PROVE  /\ SplitInv' /\ FlattenSeq(Coming)' = FlattenSeq(Coming)
         /\ sent' \in Seq(Lens) /\ got' \in Seq(Seq(Byte)) /\ Len(got') <= Len(sent')
<1>1. SplitInv' /\ FlattenSeq(Coming)' = FlattenSeq(Coming)
  BY DEF RecvInv, SplitInv, Coming, Packets
<1>2. sent' \in Seq(Lens) /\ got' \in Seq(Seq(Byte)) /\ Len(got') <= Len(sent')
  BY DEF RecvInv, TypeOK
<1> QED
  BY <1>1, <1>2

(* Bytes that arrive in the socket. *)
LEMMA ArriveKeeps ==
  ASSUME RecvInv, NEW n \in 1 .. Len(net), Arrive(n)
  PROVE  RecvInv'
<1>1. /\ wire' = wire \o SubSeq(net, 1, n) /\ net' = SubSeq(net, n + 1, Len(net))
      /\ edge' = TRUE
      /\ UNCHANGED <<is_parent, conn, conns, buf, off, prot, etin, closing, at, evt, eof, sent, got>>
  BY DEF Arrive, buffer
<1>2. /\ TypeOK /\ buf \in Seq(Byte) /\ wire \in Seq(Byte) /\ net \in Seq(Byte)
      /\ Len(net) \in Nat /\ n \in 0 .. Len(net)
  BY DEF RecvInv, TypeOK
<1>3. net' \in Seq(Byte)
  BY <1>1, <1>2, CutInTwo
<1>4. wire' \in Seq(Byte) /\ wire' \o net' = wire \o net
  BY <1>1, <1>2, Shifted
<1>5. TypeOK'
  <2>1. edge' \in BOOLEAN
    BY <1>1, Zenon
  <2> QED
    BY <1>1, <1>2, <1>3, <1>4, <2>1, Zenon DEF TypeOK
<1>6. conn = "open"
  <2>1. net # <<>>
    BY <1>2
  <2> QED
    BY <2>1 DEF RecvInv, EntryInv
<1>7. EntryInv' /\ RoomInv' /\ FrameInv' /\ UnreadIsKept'
  BY <1>1, <1>6 DEF RecvInv, EntryInv, RoomInv, BufferHasRoom, FrameInv, UnreadIsKept
<1>8. StreamInv'
  <2>1. Associate(buf, wire, net) /\ Associate(buf, wire', net')
    BY <1>2, <1>3, <1>4, Associative, Zenon
  <2>2. (buf \o wire) \o net = FlattenSeq(Coming)
    BY <1>6 DEF RecvInv, StreamInv
  <2>3. FlattenSeq(Coming)' = FlattenSeq(Coming)
    BY <1>1, HistoryKept
  <2>4. (buf' \o wire') \o net' = FlattenSeq(Coming)'
    BY <1>1, <1>4, <2>1, <2>2, <2>3, Zenon DEF Associate
  <2> QED
    BY <2>4, Zenon DEF StreamInv
<1> QED
  BY <1>1, <1>5, <1>7, <1>8, HistoryKept DEF RecvInv

LEMMA PeerCloseKeeps == RecvInv /\ PeerClose => RecvInv'
<1> SUFFICES ASSUME RecvInv, PeerClose PROVE RecvInv'
  OBVIOUS
<1>1. /\ conn = "open" /\ eof' = TRUE /\ edge' = TRUE
      /\ UNCHANGED <<is_parent, conn, conns, buf, off, prot, etin, closing, at, evt, net, wire,
                     sent, got>>
  BY DEF PeerClose, buffer
<1>2. TypeOK'
  <2>1. eof' \in BOOLEAN /\ edge' \in BOOLEAN
    BY <1>1, Zenon
  <2> QED
    BY <1>1, <2>1, Zenon DEF RecvInv, TypeOK
<1>3. EntryInv' /\ RoomInv' /\ FrameInv' /\ UnreadIsKept'
  BY <1>1 DEF RecvInv, EntryInv, RoomInv, BufferHasRoom, FrameInv, UnreadIsKept
<1>4. StreamInv'
  BY <1>1, HistoryKept DEF RecvInv, StreamInv
<1> QED
  BY <1>1, <1>2, <1>3, <1>4, HistoryKept DEF RecvInv

LEMMA LeastOfTwo ==
  ASSUME NEW a \in Int, NEW b \in Int
  PROVE  Min({a, b}) = IF a <= b THEN a ELSE b
<1>1. PICK m \in {a, b} : \A y \in {a, b} : m <= y
  OBVIOUS
<1>2. /\ Min({a, b}) \in {a, b}
      /\ \A y \in {a, b} : Min({a, b}) <= y
  BY <1>1 DEF Min
<1> QED
  BY <1>2

(* do_read_conn.  It is called where the buffer has room, so that a read   *)
(* which leaves bytes in the socket has filled it.                         *)
LEMMA ReadKeeps ==
  ASSUME RecvInv, Read, at \in {"etin", "wait"}, conn = "open",
         edge' \in BOOLEAN, evt' \in BOOLEAN, is_parent' = is_parent
  PROVE  RecvInv'
<1>1. CASE ReadEof
  <2>1. Del /\ at' = After'
    BY <1>1 DEF Read
  <2>2. at' \in {"etin", "wait"}
    BY <2>1 DEF After
  <2> QED
    BY <2>1, <2>2, DelKeeps
<1>2. CASE ~ReadEof
  <2> DEFINE n == SafeTcpRecv
  <2>1. /\ buf' = buf \o SubSeq(wire, 1, n) /\ wire' = SubSeq(wire, n + 1, Len(wire))
        /\ etin' = EtinQueue(n) /\ at' = "parse"
        /\ UNCHANGED <<closing, conn, conns, off, prot, net, eof, sent, got>>
    BY <1>2 DEF Read, peer
  <2>2. /\ TypeOK /\ buf \in Seq(Byte) /\ wire \in Seq(Byte) /\ net \in Seq(Byte)
        /\ Len(buf) \in Nat /\ Len(wire) \in Nat /\ Page \in Nat /\ Len(buf) < Page
    BY SizesAssumption DEF RecvInv, TypeOK, RoomInv, BufferHasRoom
  <2>3. /\ n \in 0 .. Len(wire) /\ Len(buf) + n <= Page
        /\ n < Len(wire) => Len(buf) + n = Page
    <3>1. Room \in Int /\ Room = Page - Len(buf) /\ Len(wire) \in Int
      BY <2>2 DEF Room
    <3>2. n = IF Room <= Len(wire) THEN Room ELSE Len(wire)
      BY <3>1, LeastOfTwo DEF SafeTcpRecv
    <3> QED
      BY <2>2, <3>1, <3>2
  <2>4. etin' = (Len(buf) + n = Page /\ ~closing)
    <3>1. Room # 0
      BY <2>2 DEF Room
    <3> QED
      BY <2>1, <3>1 DEF EtinQueue
  <2> HIDE DEF n
  <2>5. /\ wire' \in Seq(Byte) /\ Len(wire') = Len(wire) - n
    BY <2>1, <2>2, <2>3, CutInTwo
  <2>6. /\ buf' \in Seq(Byte) /\ Len(buf') = Len(buf) + n
        /\ buf' \o wire' = buf \o wire
    BY <2>1, <2>2, <2>3, Shifted
  <2>7. etin' \in BOOLEAN
    BY <2>4
  <2>8. TypeOK'
    BY <2>1, <2>2, <2>5, <2>6, <2>7, Zenon DEF TypeOK
  <2>9. UnreadIsKept'
    <3>1. CASE n < Len(wire)
      BY <2>1, <2>3, <2>4, <3>1 DEF UnreadIsKept
    <3>2. CASE ~(n < Len(wire))
      <4>1. Len(wire') = 0
        BY <2>2, <2>3, <2>5, <3>2
      <4>2. wire' = <<>>
        BY <2>5, <4>1
      <4> QED
        BY <4>2 DEF UnreadIsKept
    <3> QED
      BY <3>1, <3>2
  <2>10. EntryInv' /\ FrameInv'
    BY <2>1 DEF RecvInv, EntryInv, FrameInv
  <2>11. RoomInv'
    BY <2>1, <2>3, <2>6 DEF RoomInv, BufferHasRoom
  <2>12. StreamInv'
    <3>1. (buf \o wire) \o net = FlattenSeq(Coming)
      BY DEF RecvInv, StreamInv
    <3>2. FlattenSeq(Coming)' = FlattenSeq(Coming)
      BY <2>1, HistoryKept
    <3>3. (buf' \o wire') \o net' = FlattenSeq(Coming)'
      BY <2>1, <2>6, <3>1, <3>2, Zenon
    <3> QED
      BY <3>3, Zenon DEF StreamInv
  <2> QED
    BY <2>1, <2>8, <2>9, <2>10, <2>11, <2>12, HistoryKept DEF RecvInv
<1> QED
  BY <1>1, <1>2

(* iterate_etin_queue (net.c:115-129) *)
LEMMA IterateEtinKeeps == RecvInv /\ IterateEtin => RecvInv'
<1> SUFFICES ASSUME RecvInv, IterateEtin PROVE RecvInv'
  OBVIOUS
<1>1. at = "etin" /\ evt' = FALSE /\ is_parent' = is_parent
  BY DEF IterateEtin
<1>2. CASE etin /\ Read /\ edge' = (edge /\ ~ReadEof)
  <2>1. conn = "open"
    BY <1>2 DEF RecvInv, EntryInv, TypeOK
  <2>2. edge' \in BOOLEAN /\ evt' \in BOOLEAN
    BY <1>1, <1>2
  <2> QED
    BY <1>1, <1>2, <2>1, <2>2, ReadKeeps
<1>3. CASE /\ ~etin /\ at' = "wait"
           /\ UNCHANGED <<conn, conns, buffer, etin, closing, peer, wire, edge, got>>
  <2>1. UNCHANGED <<is_parent, conn, conns, buf, off, prot, etin, closing, net, eof, wire, edge,
                    sent, got>>
    BY <1>1, <1>3 DEF buffer, peer
  <2>2. TypeOK'
    <3>1. evt' \in BOOLEAN
      BY <1>1, Zenon
    <3>2. at' \in {"etin", "wait", "parse", "rest", "exited", "garbled"}
      BY <1>3
    <3> QED
      BY <2>1, <3>1, <3>2, Zenon DEF RecvInv, TypeOK
  <2>3. EntryInv' /\ RoomInv' /\ FrameInv' /\ UnreadIsKept'
    BY <1>1, <1>3, <2>1
    DEF RecvInv, EntryInv, RoomInv, BufferHasRoom, FrameInv, UnreadIsKept
  <2>4. StreamInv'
    BY <2>1, HistoryKept DEF RecvInv, StreamInv
  <2> QED
    BY <2>1, <2>2, <2>3, <2>4, HistoryKept DEF RecvInv
<1> QED
  BY <1>2, <1>3 DEF IterateEtin

(* The event of the connection in net_loop. *)
LEMMA EventKeeps == RecvInv /\ Event => RecvInv'
<1> SUFFICES ASSUME RecvInv, Event PROVE RecvInv'
  OBVIOUS
<1>1. /\ at = "wait" /\ edge /\ evt' = TRUE /\ edge' = FALSE /\ Read
      /\ is_parent' = is_parent
  BY DEF Event
<1>2. conn = "open"
  BY <1>1 DEF RecvInv, EntryInv, TypeOK
<1>3. edge' \in BOOLEAN /\ evt' \in BOOLEAN
  BY <1>1, Zenon
<1> QED
  BY <1>1, <1>2, <1>3, ReadKeeps

(* add_to_close_queue (net.c:90-98) *)
LEMMA FinKeeps == RecvInv /\ Fin => RecvInv'
<1> SUFFICES ASSUME RecvInv, Fin PROVE RecvInv'
  OBVIOUS
<1>1. /\ conn = "open" /\ etin' = FALSE /\ closing' = TRUE
      /\ UNCHANGED <<is_parent, conn, conns, buf, off, prot, at, evt, net, wire, eof,
                     edge, sent, got>>
  BY DEF Fin, buffer
<1>2. TypeOK'
  <2>1. etin' \in BOOLEAN /\ closing' \in BOOLEAN
    BY <1>1, Zenon
  <2> QED
    BY <1>1, <2>1, Zenon DEF RecvInv, TypeOK
<1>3. EntryInv' /\ RoomInv' /\ FrameInv' /\ UnreadIsKept'
  BY <1>1 DEF RecvInv, EntryInv, RoomInv, BufferHasRoom, FrameInv, UnreadIsKept
<1>4. StreamInv'
  BY <1>1, HistoryKept DEF RecvInv, StreamInv
<1> QED
  BY <1>1, <1>2, <1>3, <1>4, HistoryKept DEF RecvInv

LEMMA WakeKeeps == RecvInv /\ Wake => RecvInv'
<1> SUFFICES ASSUME RecvInv, Wake PROVE RecvInv'
  OBVIOUS
<1>1. /\ at = "wait" /\ at' = "etin"
      /\ UNCHANGED <<is_parent, conn, conns, buf, off, prot, etin, closing, evt, net, wire, eof,
                     edge, sent, got>>
  BY DEF Wake, buffer
<1>2. TypeOK'
  <2>1. at' \in {"etin", "wait", "parse", "rest", "exited", "garbled"}
    BY <1>1
  <2> QED
    BY <1>1, <2>1, Zenon DEF RecvInv, TypeOK
<1>3. EntryInv' /\ RoomInv' /\ FrameInv' /\ UnreadIsKept'
  BY <1>1 DEF RecvInv, EntryInv, RoomInv, BufferHasRoom, FrameInv, UnreadIsKept
<1>4. StreamInv'
  BY <1>1, HistoryKept DEF RecvInv, StreamInv
<1> QED
  BY <1>1, <1>2, <1>3, <1>4, HistoryKept DEF RecvInv

(* A length is found, but not all of the packet is there (net.c:364-370).  *)
LEMMA IncompleteKeeps == RecvInv /\ Incomplete => RecvInv'
<1> SUFFICES ASSUME RecvInv, Incomplete PROVE RecvInv'
  OBVIOUS
<1>1. /\ at = "parse" /\ ~(ProtLen > Page) /\ (ProtLen = 0 \/ Len(buf) < ProtLen)
      /\ prot' = ProtLen
      /\ at' = IF ProtLen = 0 /\ Len(buf) = Page THEN "exited" ELSE "rest"
      /\ UNCHANGED <<is_parent, conn, conns, buf, off, etin, closing, evt, net, wire, eof, edge,
                     sent, got>>
  BY DEF Incomplete, TooBig
<1>2. conn = "open" /\ Len(buf) \in Nat /\ Page \in Nat /\ Hdr \in 1 .. Page
      /\ Len(buf) <= Page
  BY <1>1, SizesAssumption DEF RecvInv, EntryInv, TypeOK, RoomInv
<1>3. /\ ProtLen \in Nat
      /\ ProtLen # 0 => Len(got) < Len(sent) /\ ProtLen = sent[Len(got) + 1]
      /\ Len(buf) >= Hdr => ProtLen # 0
  BY <1>2, NextPacketIs
<1>4. at' = "rest" /\ Len(buf) < Page
  <2>1. CASE ProtLen = 0
    BY <1>1, <1>2, <1>3, <2>1
  <2>2. CASE ProtLen # 0
    BY <1>1, <1>2, <1>3, <2>2
  <2> QED
    BY <2>1, <2>2
<1>5. TypeOK'
  <2>1. at' \in {"etin", "wait", "parse", "rest", "exited", "garbled"} /\ prot' \in Nat
    BY <1>1, <1>3, <1>4
  <2> QED
    BY <1>1, <2>1, Zenon DEF RecvInv, TypeOK
<1>6. FrameInv'
  BY <1>1, <1>3, Zenon DEF FrameInv
<1>7. EntryInv' /\ RoomInv' /\ UnreadIsKept'
  BY <1>1, <1>2, <1>4 DEF RecvInv, EntryInv, RoomInv, BufferHasRoom, UnreadIsKept
<1>8. StreamInv'
  BY <1>1, HistoryKept DEF RecvInv, StreamInv
<1> QED
  BY <1>1, <1>5, <1>6, <1>7, <1>8, HistoryKept DEF RecvInv

(* A packet is handed on (net.c:370-395). *)
LEMMA HandOnKeeps == RecvInv /\ HandOn => RecvInv'
<1> SUFFICES ASSUME RecvInv, HandOn PROVE RecvInv'
  OBVIOUS
<1> DEFINE l == ProtLen
           p == Packet(l)
<1>1. /\ at = "parse" /\ l # 0 /\ Len(buf) >= l /\ ~(l > Page)
      /\ got' = Append(got, SubSeq(buf, 1, l))
      /\ buf' = SubSeq(buf, l + 1, Len(buf))
      /\ off' = (IF Len(buf) > l THEN off + l ELSE off) /\ prot' = 0
      /\ at' = IF Len(buf) > l THEN "parse" ELSE "rest"
      /\ UNCHANGED <<is_parent, conn, conns, etin, closing, evt, net, wire, eof, edge, sent>>
  BY DEF HandOn, Complete, NextPacket, TooBig
<1>2. /\ TypeOK /\ PacketsTyped /\ conn = "open" /\ Page \in Nat /\ Page # 0
      /\ Len(buf) \in Nat /\ Len(buf) <= Page
      /\ sent \in Seq(Lens) /\ got \in Seq(Seq(Byte)) /\ off \in Nat
      /\ Len(sent) \in Nat /\ Len(got) \in Nat
      /\ buf \in Seq(Byte) /\ wire \in Seq(Byte) /\ net \in Seq(Byte)
  BY <1>1, ComingFacts, SizesAssumption DEF RecvInv, EntryInv, TypeOK, RoomInv
<1>3. l \in Nat /\ Len(got) < Len(sent) /\ l = sent[Len(got) + 1]
  BY <1>1, <1>2, NextPacketIs
<1> HIDE DEF l
<1>4. /\ p \in Seq(Byte) /\ Len(p) = l
      /\ Later \in Seq(Seq(Byte)) /\ FlattenSeq(Later) \in Seq(Byte)
      /\ FlattenSeq(Coming) = p \o FlattenSeq(Later)
  BY <1>2, <1>3, NextAndLater, PacketFacts
<1> HIDE DEF p
<1>5. /\ SubSeq(buf, 1, l) = p
      /\ (buf' \o wire) \o net = FlattenSeq(Later)
  <2>1. (buf \o wire) \o net = p \o FlattenSeq(Later)
    BY <1>2, <1>4 DEF RecvInv, StreamInv
  <2>2. Len(p) <= Len(buf)
    BY <1>1, <1>2, <1>3, <1>4
  <2>3. /\ SubSeq(buf, 1, Len(p)) = p
        /\ (SubSeq(buf, Len(p) + 1, Len(buf)) \o wire) \o net = FlattenSeq(Later)
    BY <1>2, <1>4, <2>1, <2>2, FirstIsCut
  <2> QED
    BY <1>1, <1>4, <2>3, Zenon
<1>6. /\ got' \in Seq(Seq(Byte)) /\ Len(got') = Len(got) + 1
      /\ got'[Len(got) + 1] = p /\ \A i \in 1 .. Len(got) : got'[i] = got[i]
      /\ DOMAIN got' = 1 .. Len(got) + 1
  <2>1. got' = Append(got, p)
    BY <1>1, <1>5, Zenon
  <2> QED
    BY <1>2, <1>4, <2>1
<1>7. buf' \in Seq(Byte) /\ Len(buf') = Len(buf) - l
  <2>1. l \in 0 .. Len(buf)
    BY <1>1, <1>2, <1>3
  <2> QED
    BY <1>1, <1>2, <2>1, CutInTwo
<1>8. TypeOK'
  <2>1. /\ at' \in {"etin", "wait", "parse", "rest", "exited", "garbled"} /\ prot' \in Nat
        /\ off' \in Nat
    <3>1. at' = "parse" \/ at' = "rest"
      BY <1>1, Zenon
    <3>2. off' = off + l \/ off' = off
      BY <1>1, Zenon
    <3>3. off + l \in Nat /\ off \in Nat /\ 0 \in Nat
      BY <1>2, <1>3
    <3>4. off' \in Nat
      BY <3>2, <3>3, Zenon
    <3>5. prot' \in Nat
      BY <1>1, <3>3, Zenon
    <3> QED
      BY <3>1, <3>4, <3>5, Zenon
  <2>2. Len(got') <= Len(sent')
    BY <1>1, <1>2, <1>3, <1>6
  <2> QED
    BY <1>1, <1>2, <1>6, <1>7, <2>1, <2>2, Zenon DEF TypeOK
<1>9. Coming' = Later
  BY <1>1, <1>6 DEF Coming, Later
<1>10. SplitInv'
  <2>1. ASSUME NEW i \in DOMAIN got' PROVE got'[i] = Packet(sent'[i])
    <3>1. CASE i \in 1 .. Len(got)
      <4>1. got[i] = Packet(sent[i])
        BY <1>2, <3>1 DEF RecvInv, SplitInv
      <4> QED
        BY <1>1, <1>6, <3>1, <4>1, Zenon
    <3>2. CASE i = Len(got) + 1
      BY <1>1, <1>3, <1>6, <3>2, Zenon DEF p
    <3> QED
      BY <1>2, <1>6, <3>1, <3>2
  <2>2. FlattenSeq(got') = FlattenSeq(got) \o p
    <3>1. FlattenSeq(got') = FlattenSeq(got) \o got'[Len(got')]
      BY <1>2, <1>6, FlattenLast
    <3> QED
      BY <1>6, <3>1, Zenon
  <2>3. Associate(FlattenSeq(got), p, FlattenSeq(Later))
    BY <1>2, <1>4, Associative, Zenon DEF PacketsTyped
  <2>4. FlattenSeq(got) \o FlattenSeq(Coming) = FlattenSeq(Packets)
    BY DEF RecvInv, SplitInv
  <2>5. Packets' = Packets
    BY <1>1, Zenon DEF Packets
  <2>6. FlattenSeq(got') \o FlattenSeq(Coming') = FlattenSeq(Packets')
    BY <1>4, <1>9, <2>2, <2>3, <2>4, <2>5, Zenon DEF Associate
  <2> QED
    BY <2>1, <2>6, Zenon DEF SplitInv
<1>11. StreamInv'
  <2>1. (buf' \o wire') \o net' = FlattenSeq(Coming')
    BY <1>1, <1>5, <1>9, Zenon
  <2> QED
    BY <2>1, Zenon DEF StreamInv
<1>12. EntryInv' /\ FrameInv' /\ UnreadIsKept'
  BY <1>1, <1>2 DEF RecvInv, EntryInv, FrameInv, UnreadIsKept
<1>13. RoomInv'
  <2>1. Len(buf') <= Page /\ (at' = "rest" => Len(buf') < Page)
    <3>1. Len(buf') <= Page
      BY <1>1, <1>2, <1>3, <1>7
    <3>2. CASE Len(buf) > l
      BY <1>1, <3>1, <3>2
    <3>3. CASE ~(Len(buf) > l)
      <4>1. Len(buf) - l = 0 /\ 0 < Page
        BY <1>1, <1>2, <1>3, <3>3
      <4> QED
        BY <1>7, <3>1, <4>1
    <3> QED
      BY <3>2, <3>3
  <2>2. at' \notin {"etin", "wait", "exited"}
    BY <1>1
  <2> QED
    BY <2>1, <2>2 DEF RoomInv, BufferHasRoom
<1> QED
  BY <1>8, <1>10, <1>11, <1>12, <1>13 DEF RecvInv

(* The rest moves to the start of the buffer (net.c:397-404). *)
LEMMA RestKeeps == RecvInv /\ Rest => RecvInv'
<1> SUFFICES ASSUME RecvInv, Rest PROVE RecvInv'
  OBVIOUS
<1>1. /\ at = "rest" /\ off' = 0 /\ at' \in {"etin", "wait", "garbled"}
      /\ UNCHANGED <<is_parent, conn, conns, buf, prot, etin, closing, evt, net, wire, eof, edge,
                     sent, got>>
  BY DEF Rest, After
<1>2. TypeOK'
  <2>1. /\ at' \in {"etin", "wait", "parse", "rest", "exited", "garbled"}
        /\ off' \in Nat
    BY <1>1
  <2> QED
    BY <1>1, <2>1, Zenon DEF RecvInv, TypeOK
<1>3. EntryInv' /\ RoomInv' /\ FrameInv' /\ UnreadIsKept'
  BY <1>1 DEF RecvInv, EntryInv, RoomInv, BufferHasRoom, FrameInv, UnreadIsKept
<1>4. StreamInv'
  BY <1>1, HistoryKept DEF RecvInv, StreamInv
<1> QED
  BY <1>1, <1>2, <1>3, <1>4, HistoryKept DEF RecvInv

LEMMA RecvInit == Init => RecvInv
<1> SUFFICES ASSUME Init PROVE RecvInv
  OBVIOUS
<1>1. TypeOK
  <2>1. /\ is_parent \in BOOLEAN /\ evt \in BOOLEAN /\ etin \in BOOLEAN
        /\ closing \in BOOLEAN
        /\ eof \in BOOLEAN /\ edge \in BOOLEAN
    BY Zenon DEF Init
  <2>2. /\ buf \in Seq(Byte) /\ wire \in Seq(Byte) /\ net \in Seq(Byte)
        /\ off \in Nat /\ prot \in Nat /\ conns \in Nat
        /\ sent \in Seq(Lens) /\ got \in Seq(Seq(Byte)) /\ Len(got) <= Len(sent)
    BY DEF Init
  <2>3. /\ conn \in {"none", "open", "closed"}
        /\ at \in {"etin", "wait", "parse", "rest", "exited", "garbled"}
    BY DEF Init
  <2> QED
    BY <2>1, <2>2, <2>3, Zenon DEF TypeOK
<1>2. SplitInv
  BY <1>1, EmptyEntry DEF Init
<1>3. EntryInv /\ StreamInv /\ FrameInv /\ UnreadIsKept
  BY DEF Init, EntryInv, StreamInv, FrameInv, UnreadIsKept
<1>4. RoomInv
  <2>1. Len(buf) = 0 /\ at = "etin"
    BY DEF Init
  <2> QED
    BY <2>1, SizesAssumption DEF RoomInv, BufferHasRoom
<1> QED
  BY <1>1, <1>2, <1>3, <1>4 DEF RecvInv

LEMMA RecvStep == RecvInv /\ [Next]_vars => RecvInv'
<1> SUFFICES ASSUME RecvInv, [Next]_vars PROVE RecvInv'
  OBVIOUS
<1>0. TypeOK
  BY DEF RecvInv
<1>1. CASE UNCHANGED vars
  <2>1. UNCHANGED <<is_parent, conn, conns, buf, off, prot, etin, closing, at, evt, net, wire,
                    eof, edge, sent, got>>
    BY <1>1 DEF vars, buffer
  <2>2. TypeOK'
    BY <1>0, <2>1, Zenon DEF TypeOK
  <2>3. EntryInv' /\ RoomInv' /\ FrameInv' /\ UnreadIsKept'
    BY <2>1 DEF RecvInv, EntryInv, RoomInv, BufferHasRoom, FrameInv, UnreadIsKept
  <2>4. StreamInv'
    BY <2>1, HistoryKept DEF RecvInv, StreamInv
  <2> QED
    BY <2>1, <2>2, <2>3, <2>4, HistoryKept DEF RecvInv
<1>2. CASE Environment
  BY <1>2, PeerSendKeeps, ArriveKeeps, PeerCloseKeeps DEF Environment
<1>3. CASE OpenConn \/ ConnectToSvr
  <2>1. Fresh /\ at' \in {"etin", "wait"} /\ evt' = evt /\ is_parent' = is_parent
    BY <1>3 DEF OpenConn, ConnectToSvr
  <2> QED
    BY <2>1, FreshKeeps
<1>4. CASE CloseSvr \/ Reap \/ IterateClose \/ Refuse \/ PushRefused
  <2>1. Del /\ at' \in {"etin", "wait"} /\ evt' = evt /\ is_parent' = is_parent
    BY <1>4 DEF CloseSvr, Reap, IterateClose, Refuse, PushRefused, After
  <2>2. evt' \in BOOLEAN
    BY <1>0, <2>1, Zenon DEF TypeOK
  <2> QED
    BY <2>1, <2>2, DelKeeps
<1>5. CASE PluginCloses
  <2>1. /\ Del \/ Fresh
        /\ at' \in {"etin", "wait"} /\ evt' = evt /\ is_parent' = is_parent
    BY <1>5 DEF PluginCloses, After
  <2>2. evt' \in BOOLEAN
    BY <1>0, <2>1, Zenon DEF TypeOK
  <2> QED
    BY <2>1, <2>2, DelKeeps, FreshKeeps
<1>6. CASE IterateEtin \/ Event \/ Fin \/ Wake \/ Incomplete \/ HandOn \/ Rest
  BY <1>6, IterateEtinKeeps, EventKeeps, FinKeeps, WakeKeeps, IncompleteKeeps,
     HandOnKeeps, RestKeeps
<1> QED
  BY <1>1, <1>2, <1>3, <1>4, <1>5, <1>6 DEF Next, Process

LEMMA RecvInvariant == Spec => []RecvInv
  BY RecvInit, RecvStep, PTL DEF Spec

(* net_recv cuts the stream where the peer's packets end, whatever pieces  *)
(* it arrives in: each is handed on once, whole and in order, and no byte  *)
(* is lost or invented.                                                    *)
THEOREM PacketsArriveWholeThm == Spec => []PacketsArriveWhole
<1>1. RecvInv => PacketsArriveWhole
  <2> SUFFICES ASSUME RecvInv PROVE PacketsArriveWhole
    OBVIOUS
  <2>1. /\ PacketsTyped /\ buf \in Seq(Byte) /\ wire \in Seq(Byte) /\ net \in Seq(Byte)
    BY ComingFacts DEF RecvInv, TypeOK
  <2>2. \A i \in DOMAIN got : got[i] = Packet(sent[i])
    BY DEF RecvInv, SplitInv
  <2>3. ASSUME conn = "open"
        PROVE  FlattenSeq(got) \o buf \o wire \o net = FlattenSeq(Packets)
    <3> DEFINE g == FlattenSeq(got)
    <3>1. g \in Seq(Byte)
      BY <2>1 DEF PacketsTyped
    <3>2. /\ g \o FlattenSeq(Coming) = FlattenSeq(Packets)
          /\ (buf \o wire) \o net = FlattenSeq(Coming)
      BY <2>3 DEF RecvInv, SplitInv, StreamInv
    <3> HIDE DEF g
    <3>3. buf \o wire \in Seq(Byte)
      BY <2>1, ConcatProperties
    <3>4. Associate(g, buf, wire) /\ Associate(g, buf \o wire, net)
      BY <2>1, <3>1, <3>3, Associative, Zenon
    <3>5. ((g \o buf) \o wire) \o net = FlattenSeq(Packets)
      BY <3>2, <3>4, Zenon DEF Associate
    <3> QED
      BY <3>5, Zenon DEF g
  <2> QED
    BY <2>2, <2>3, Zenon DEF PacketsArriveWhole
<1> QED
  BY <1>1, RecvInvariant, PTL

(* Whenever net_loop may call do_read_conn the buffer has room, and the    *)
(* exit for a full buffer without a packet's length is never taken.        *)
THEOREM BufferHasRoomThm == Spec => []BufferHasRoom
<1>1. RecvInv => BufferHasRoom
  BY DEF RecvInv, RoomInv
<1> QED
  BY <1>1, RecvInvariant, PTL

(* What a read leaves in an edge-triggered socket is remembered by the     *)
(* etin queue, unless a new edge is there or the connection is about to be *)
(* deleted from the close queue: the safety part of UnreadIsRead.          *)
THEOREM UnreadIsKeptThm == Spec => []UnreadIsKept
<1>1. RecvInv => UnreadIsKept
  BY DEF RecvInv
<1> QED
  BY <1>1, RecvInvariant, PTL
=============================================================================
