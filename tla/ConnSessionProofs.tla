------------------------- MODULE ConnSessionProofs -------------------------
(***************************************************************************)
(* A connection, its session and the blocks between them: for any number   *)
(* of descriptors, of connections, of packets and of restarts, up to the   *)
(* 2^32 connections after which the ids of net.c:168 repeat.  That an      *)
(* answer never reaches another client holds whatever the queues have room *)
(* for; that the parent and the worker agree on the connections there are  *)
(* holds as long as no queue is full, since a push that fails is ignored.  *)
(***************************************************************************)
EXTENDS ConnSession, WellFoundedInduction, TLAPS
-----------------------------------------------------------------------------
(***************************************************************************)
(* The inductive invariants.  The first one holds whatever the queues have *)
(* room for.  Ids grow: on one descriptor, from the session of the worker  *)
(* over the blocks in the receive queue to the entry of the parent.        *)
(***************************************************************************)
Blocks == [type : {"OPEN", "DATA", "CLOSE", "FIN"}, fd : Fds, id : Nat, src : Nat]

(* The parent's table, and that a hang-up is only reported of a dead       *)
(* worker.                                                                 *)
TableInv ==
  /\ fds \in [Fds -> [type : {"unused", "remote"}, id : Nat]]
  /\ seq \in Nat /\ \A fd \in Fds : fds[fd].id <= seq
  /\ closeq \subseteq Fds
  /\ ppc \in {"parse", "gone"} => cur \in Fds /\ fds[cur].type = "remote"
  /\ alive \in BOOLEAN /\ hev \in BOOLEAN /\ hup \in BOOLEAN
  /\ (hev => hup) /\ (hup => ~alive)

(* A block lies between the session and the entry, and the blocks of a     *)
(* descriptor are in the order of its connections.                         *)
RecvBlock(b) ==
  /\ sess[b.fd] <= b.id /\ b.id <= fds[b.fd].id
  /\ b.type = "DATA" => b.src = b.id

RecvInv ==
  alive => /\ recvq \in Seq(Blocks)
           /\ \A fd \in Fds : sess[fd] <= fds[fd].id
           /\ \A i \in DOMAIN recvq : RecvBlock(recvq[i])
           /\ \A i, j \in DOMAIN recvq :
                i < j /\ recvq[i].fd = recvq[j].fd => recvq[i].id <= recvq[j].id

(* An answer to another connection's packet has an id that is outdated.    *)
SendBlock(b) ==
  /\ b.id <= fds[b.fd].id
  /\ b.type = "DATA" /\ b.src # b.id => b.id < fds[b.fd].id

SendInv == sendq \in Seq(Blocks) /\ \A i \in DOMAIN sendq : SendBlock(sendq[i])

IdInv == TableInv /\ sess \in [Fds -> Nat] /\ RecvInv /\ SendInv

(***************************************************************************)
(* The second one holds while no push fails.                               *)
(***************************************************************************)
HasRoom == Len(recvq) < Cap /\ Len(sendq) < Cap

(* OPEN comes first of a connection's blocks and CLOSE last, with no       *)
(* session before and no connection after it.                              *)
Ordered(q) ==
  \A i, j \in DOMAIN q :
    i < j /\ q[i].fd = q[j].fd /\ (q[j].type = "OPEN" \/ q[i].type = "CLOSE")
      => q[i].id < q[j].id

OrderInv ==
  /\ Ordered(recvq)
  /\ \A b \in Range(recvq) :
       /\ b.type = "OPEN" => sess[b.fd] < b.id
       /\ b.type = "CLOSE" /\ b.id = fds[b.fd].id => fds[b.fd].type = "unused"

(* A connection that is being opened is there, or its CLOSE_BLOCK is. *)
OpenInv ==
  \A b \in Range(recvq) : b.type = "OPEN" =>
    \/ fds[b.fd] = [type |-> "remote", id |-> b.id]
    \/ InQueue(recvq, "CLOSE", b.fd, b.id)

(* A connection that the worker has ended has no session and gets none,    *)
(* from the FIN_BLOCK to the close queue.                                  *)
Ended(fd, id) == id > 0 /\ sess[fd] # id /\ ~InQueue(recvq, "OPEN", fd, id)

FinInv ==
  /\ \A b \in Range(sendq) : b.type = "FIN" => Ended(b.fd, b.id)
  /\ \A fd \in closeq : fds[fd].type = "remote" /\ Ended(fd, fds[fd].id)

SessionInv ==
  alive => OrderInv /\ OpenInv /\ FinInv /\ SessionsEnd /\ ConnectionsAreServed
-----------------------------------------------------------------------------

(* A non-empty set of descriptors has a lowest one: what accept returns. *)
LEMMA LeastFd ==
  ASSUME NEW S \in SUBSET Fds, S # {}
  PROVE  (CHOOSE f \in S : \A other \in S : f <= other) \in S
<1>1. S \subseteq Nat
  BY FdsAssumption
<1>2. \E x \in S : \A y \in S : ~(<<y, x>> \in OpToRel(<, Nat))
  BY <1>1, NatLessThanWellFounded, WFMin
<1>3. PICK x \in S : \A y \in S : ~(<<y, x>> \in OpToRel(<, Nat))
  BY <1>2
<1>4. \A y \in S : ~(y < x)
  BY <1>1, <1>3, Zenon DEF OpToRel
<1>5. \A y \in S : x <= y
  BY <1>1, <1>4
<1> QED
  BY <1>5
-----------------------------------------------------------------------------
(***************************************************************************)
(* Ids.                                                                    *)
(***************************************************************************)

(* The ids of the entries never decrease. *)
IdsGrow == \A fd \in Fds : fds[fd].id <= fds'[fd].id

(* No session of the worker gets a larger id. *)
SessKept == sess' \in [Fds -> Nat] /\ \A fd \in Fds : sess'[fd] <= sess[fd]

TableTyped == fds' \in [Fds -> [type : {"unused", "remote"}, id : Nat]]

(* What a block in the queue is made of. *)
LEMMA BlockTyped ==
  ASSUME NEW q \in Seq(Blocks)
  PROVE  /\ DOMAIN q = 1 .. Len(q) /\ Len(q) \in Nat
         /\ \A i \in 1 .. Len(q) : /\ q[i] \in Blocks
                                   /\ q[i].fd \in Fds /\ q[i].id \in Nat
                                   /\ q[i].src \in Nat
<1>1. \A b \in Blocks : b.fd \in Fds /\ b.id \in Nat /\ b.src \in Nat
  BY DEF Blocks
<1>2. /\ DOMAIN q = 1 .. Len(q) /\ Len(q) \in Nat
      /\ \A i \in 1 .. Len(q) : q[i] \in Blocks
  OBVIOUS
<1> QED
  BY <1>1, <1>2

LEMMA HeadTyped ==
  ASSUME NEW q \in Seq(Blocks), q # <<>>
  PROVE  /\ Head(q) \in Blocks /\ Head(q).fd \in Fds /\ Head(q).id \in Nat
         /\ Head(q).src \in Nat /\ Head(q) = q[1] /\ 1 \in 1 .. Len(q)
<1>1. Head(q) = q[1] /\ 1 \in 1 .. Len(q)
  OBVIOUS
<1> QED
  BY <1>1, BlockTyped

(* Nothing is pushed while ids grow and sessions end. *)
LEMMA RecvKept ==
  ASSUME IdInv, TableTyped, IdsGrow, SessKept, alive' => alive, recvq' = recvq
  PROVE  RecvInv'
<1> SUFFICES ASSUME alive' PROVE RecvInv'
  BY DEF RecvInv
<1>0. recvq \in Seq(Blocks)
  BY DEF IdInv, RecvInv
<1>1. /\ \A fd \in Fds : sess[fd] <= fds[fd].id
      /\ \A i \in DOMAIN recvq : RecvBlock(recvq[i])
  BY DEF IdInv, RecvInv
<1>2. \A fd \in Fds : /\ fds[fd].id <= fds'[fd].id /\ sess'[fd] <= sess[fd]
                      /\ sess'[fd] \in Nat /\ fds'[fd].id \in Nat
                      /\ sess[fd] \in Nat /\ fds[fd].id \in Nat
  BY DEF IdInv, TableInv, TableTyped, IdsGrow, SessKept
<1>3. ASSUME NEW i \in DOMAIN recvq, NEW x, x = recvq[i]
      PROVE  RecvBlock(x)'
  <2>1. x.fd \in Fds /\ x.id \in Nat /\ RecvBlock(x)
    BY <1>0, <1>1, <1>3, BlockTyped
  <2> QED
    BY <1>2, <2>1 DEF RecvBlock
<1>4. \A fd \in Fds : sess'[fd] <= fds'[fd].id
  BY <1>1, <1>2
<1> QED
  BY <1>3, <1>4 DEF IdInv, RecvInv

(* The parent pushes, or may fail to push, a block of a connection that it *)
(* has.                                                                    *)
LEMMA RecvPushed ==
  ASSUME IdInv, TableTyped, IdsGrow, SessKept, alive' => alive,
         NEW b \in Blocks, b.id = fds'[b.fd].id, b.type = "DATA" => b.src = b.id,
         recvq' \in {recvq, Append(recvq, b)}
  PROVE  RecvInv'
<1> SUFFICES ASSUME alive' PROVE RecvInv'
  BY DEF RecvInv
<1>0. recvq \in Seq(Blocks) /\ recvq' \in Seq(Blocks)
  BY DEF IdInv, RecvInv
<1>1. /\ \A fd \in Fds : sess[fd] <= fds[fd].id
      /\ \A i \in 1 .. Len(recvq) : RecvBlock(recvq[i])
      /\ \A i, j \in 1 .. Len(recvq) :
           i < j /\ recvq[i].fd = recvq[j].fd => recvq[i].id <= recvq[j].id
  BY <1>0, BlockTyped DEF IdInv, RecvInv
<1>2. /\ fds \in [Fds -> [type : {"unused", "remote"}, id : Nat]]
      /\ fds' \in [Fds -> [type : {"unused", "remote"}, id : Nat]]
      /\ sess \in [Fds -> Nat] /\ sess' \in [Fds -> Nat]
      /\ \A fd \in Fds : /\ fds[fd].id <= fds'[fd].id /\ sess'[fd] <= sess[fd]
                         /\ sess'[fd] \in Nat /\ fds'[fd].id \in Nat
                         /\ sess[fd] \in Nat /\ fds[fd].id \in Nat
  BY DEF IdInv, TableInv, TableTyped, IdsGrow, SessKept
<1>3. b.fd \in Fds /\ b.id \in Nat
  BY DEF Blocks
<1>4. \A fd \in Fds : sess'[fd] <= fds'[fd].id
  BY <1>1, <1>2
<1>5. ASSUME NEW i \in 1 .. Len(recvq), NEW x, x = recvq[i]
      PROVE  RecvBlock(x)'
  BY <1>0, <1>1, <1>2, <1>5, BlockTyped DEF RecvBlock
<1>6. RecvBlock(b)'
  BY <1>2, <1>3, <1>4 DEF RecvBlock
<1>7. CASE recvq' = recvq
  BY <1>7, RecvKept
<1>8. CASE recvq' = Append(recvq, b)
  <2>1. /\ Len(recvq') = Len(recvq) + 1 /\ recvq'[Len(recvq) + 1] = b
        /\ \A i \in 1 .. Len(recvq) : recvq'[i] = recvq[i]
    BY <1>0, <1>8
  <2>2. ASSUME NEW i \in 1 .. Len(recvq'), NEW x, x = recvq'[i]
        PROVE  RecvBlock(x)'
    BY <1>0, <1>5, <1>6, <2>1, <2>2
  <2>3. ASSUME NEW i \in 1 .. Len(recvq'), NEW j \in 1 .. Len(recvq'),
               i < j, recvq'[i].fd = recvq'[j].fd
        PROVE  recvq'[i].id <= recvq'[j].id
    <3>0. Len(recvq) \in Nat /\ i \in 1 .. Len(recvq) /\ recvq'[i] = recvq[i]
      BY <1>0, <2>1, <2>3
    <3>1. CASE j = Len(recvq) + 1
      <4>1. recvq[i].id <= fds'[recvq[i].fd].id
        BY <1>5, <3>0 DEF RecvBlock
      <4> QED
        BY <2>1, <2>3, <3>0, <3>1, <4>1
    <3>2. CASE j # Len(recvq) + 1
      <4>1. j \in 1 .. Len(recvq) /\ recvq'[j] = recvq[j]
        BY <1>0, <2>1, <3>0, <3>2
      <4> QED
        BY <1>1, <2>3, <3>0, <4>1
    <3> QED
      BY <3>1, <3>2
  <2> QED
    BY <1>0, <1>4, <2>2, <2>3, BlockTyped DEF RecvInv
<1> QED
  BY <1>7, <1>8

(* The worker pops a block; the session of its descriptor may become the   *)
(* one the block names.                                                    *)
LEMMA RecvPopped ==
  ASSUME IdInv, alive, fds' = fds, recvq # <<>>, recvq' = Tail(recvq),
         sess' \in [Fds -> Nat],
         \A fd \in Fds : \/ sess'[fd] <= sess[fd]
                         \/ fd = Head(recvq).fd /\ sess'[fd] = Head(recvq).id
  PROVE  RecvInv'
<1>0. /\ recvq \in Seq(Blocks) /\ recvq' \in Seq(Blocks)
      /\ Len(recvq) \in Nat /\ Len(recvq') = Len(recvq) - 1
      /\ \A i \in 1 .. Len(recvq') : /\ recvq'[i] = recvq[i + 1]
                                     /\ i + 1 \in 1 .. Len(recvq) /\ i + 1 > 1
      /\ 1 \in 1 .. Len(recvq) /\ Head(recvq) = recvq[1]
  BY DEF IdInv, RecvInv
<1>1. /\ \A fd \in Fds : sess[fd] <= fds[fd].id
      /\ \A i \in 1 .. Len(recvq) : RecvBlock(recvq[i])
      /\ \A i, j \in 1 .. Len(recvq) :
           i < j /\ recvq[i].fd = recvq[j].fd => recvq[i].id <= recvq[j].id
  BY <1>0, BlockTyped DEF IdInv, RecvInv
<1>2. \A fd \in Fds : sess'[fd] \in Nat /\ sess[fd] \in Nat /\ fds[fd].id \in Nat
  BY DEF IdInv, TableInv
<1>3. \A i \in 1 .. Len(recvq) : /\ recvq[i].fd \in Fds /\ recvq[i].id \in Nat
                                 /\ recvq[i].id <= fds[recvq[i].fd].id
                                 /\ sess[recvq[i].fd] <= recvq[i].id
  BY <1>0, <1>1, BlockTyped DEF RecvBlock
<1>4. \A fd \in Fds : sess'[fd] <= fds'[fd].id
  BY <1>0, <1>1, <1>2, <1>3
<1>5. ASSUME NEW i \in 1 .. Len(recvq'), NEW x, x = recvq'[i]
      PROVE  RecvBlock(x)'
  <2>1. /\ x = recvq[i + 1] /\ i + 1 \in 1 .. Len(recvq) /\ x.fd \in Fds
        /\ x.id \in Nat
    BY <1>0, <1>3, <1>5
  <2>2. sess'[x.fd] <= x.id
    <3>1. CASE sess'[x.fd] <= sess[x.fd]
      BY <1>2, <1>3, <2>1, <3>1
    <3>2. CASE x.fd = Head(recvq).fd /\ sess'[x.fd] = Head(recvq).id
      BY <1>0, <1>1, <2>1, <3>2
    <3> QED
      BY <2>1, <3>1, <3>2
  <2> QED
    BY <1>1, <1>3, <2>1, <2>2 DEF RecvBlock
<1>6. ASSUME NEW i \in 1 .. Len(recvq'), NEW j \in 1 .. Len(recvq'),
             i < j, recvq'[i].fd = recvq'[j].fd
      PROVE  recvq'[i].id <= recvq'[j].id
  <2>1. i + 1 < j + 1
    BY <1>0, <1>6
  <2> QED
    BY <1>0, <1>1, <1>6, <2>1
<1> QED
  BY <1>0, <1>4, <1>5, <1>6, BlockTyped DEF RecvInv

(* Blocks are popped from the send queue or pushed to it. *)
LEMMA SendStep ==
  ASSUME IdInv, TableTyped, IdsGrow,
         \/ sendq' = sendq
         \/ sendq # <<>> /\ sendq' = Tail(sendq)
         \/ \E b \in Blocks : SendBlock(b) /\ sendq' = Append(sendq, b)
  PROVE  SendInv'
<1>0. sendq \in Seq(Blocks) /\ sendq' \in Seq(Blocks)
  BY DEF IdInv, SendInv
<1>1. /\ sendq \in Seq(Blocks) /\ sendq' \in Seq(Blocks) /\ Len(sendq) \in Nat
      /\ \A i \in 1 .. Len(sendq) : SendBlock(sendq[i])
  BY <1>0, BlockTyped DEF IdInv, SendInv
<1>2. \A fd \in Fds : /\ fds[fd].id \in Nat /\ fds'[fd].id \in Nat
                      /\ fds[fd].id <= fds'[fd].id
  BY DEF IdInv, TableInv, TableTyped, IdsGrow
<1>3. ASSUME NEW b \in Blocks, SendBlock(b)
      PROVE  SendBlock(b)'
  <2>1. b.fd \in Fds /\ b.id \in Nat
    BY DEF Blocks
  <2> QED
    BY <1>2, <1>3, <2>1 DEF SendBlock
<1>4. ASSUME NEW i \in 1 .. Len(sendq')
      PROVE  sendq'[i] \in Blocks /\ SendBlock(sendq'[i])
  <2>1. sendq'[i] \in Blocks
    BY <1>1
  <2>2. CASE sendq' = sendq
    BY <1>1, <2>1, <2>2
  <2>3. CASE sendq # <<>> /\ sendq' = Tail(sendq)
    <3>1. sendq'[i] = sendq[i + 1] /\ i + 1 \in 1 .. Len(sendq)
      BY <1>1, <2>3
    <3> QED
      BY <1>1, <2>1, <3>1
  <2>4. CASE \E b \in Blocks : SendBlock(b) /\ sendq' = Append(sendq, b)
    <3>1. PICK b \in Blocks : SendBlock(b) /\ sendq' = Append(sendq, b)
      BY <2>4
    <3>2. \/ i \in 1 .. Len(sendq) /\ sendq'[i] = sendq[i]
          \/ sendq'[i] = b
      BY <1>1, <3>1
    <3> QED
      BY <1>1, <2>1, <3>1, <3>2
  <2> QED
    BY <2>2, <2>3, <2>4
<1>5. ASSUME NEW i \in DOMAIN sendq', NEW x, x = sendq'[i]
      PROVE  SendBlock(x)'
  <2>1. i \in 1 .. Len(sendq')
    BY <1>1, BlockTyped
  <2> QED
    BY <1>3, <1>4, <1>5, <2>1
<1> QED
  BY <1>1, <1>5 DEF SendInv

(* What the two queues hold depends on nothing else. *)
LEMMA QueuesKept ==
  ASSUME IdInv, UNCHANGED <<fds, sess, recvq, sendq>>, alive' => alive
  PROVE  sess' \in [Fds -> Nat] /\ RecvInv' /\ SendInv'
  BY DEF IdInv, RecvInv, SendInv, RecvBlock, SendBlock

(* do_del_conn of some connections. *)
LEMMA DelStep ==
  ASSUME IdInv, NEW gone \in SUBSET Fds, Del(gone)
  PROVE  /\ TableTyped /\ IdsGrow /\ closeq' \subseteq Fds
         /\ \A fd \in Fds : /\ fds'[fd].id = fds[fd].id
                            /\ fd \in gone => fds'[fd].type = "unused"
                            /\ fd \notin gone => fds'[fd] = fds[fd]
<1>1. /\ fds \in [Fds -> [type : {"unused", "remote"}, id : Nat]]
      /\ closeq \subseteq Fds
  BY DEF IdInv, TableInv
<1>2. ASSUME NEW fd \in Fds
      PROVE  /\ fds'[fd] \in [type : {"unused", "remote"}, id : Nat]
             /\ fds'[fd].id = fds[fd].id
             /\ fd \in gone => fds'[fd].type = "unused"
             /\ fd \notin gone => fds'[fd] = fds[fd]
  BY <1>1 DEF Del
<1>3. TableTyped
  BY <1>2 DEF Del, TableTyped
<1>4. IdsGrow
  BY <1>1, <1>2 DEF IdsGrow
<1> QED
  BY <1>1, <1>2, <1>3, <1>4 DEF Del

(* do_del_conn of a connection, with a CLOSE_BLOCK or without when the     *)
(* queue is full.                                                          *)
LEMMA DelTellingStep ==
  ASSUME IdInv, NEW fd \in Fds, DelTelling(fd),
         UNCHANGED <<alive, sess>>
  PROVE  RecvInv'
<1> DEFINE b == Block("CLOSE", fd, fds[fd].id, 0)
<1>1. /\ TableTyped /\ IdsGrow
      /\ fds'[fd].id = fds[fd].id /\ fds[fd].id \in Nat
  BY DelStep DEF DelTelling, IdInv, TableInv
<1>2. b \in Blocks /\ b.fd = fd /\ b.id = fds[fd].id /\ b.type = "CLOSE"
  BY <1>1 DEF Block, Blocks
<1>3. recvq' \in {recvq, Append(recvq, b)}
  BY DEF DelTelling, Pushed
<1>4. SessKept
  BY DEF SessKept, IdInv
<1> HIDE DEF b
<1> QED
  BY <1>1, <1>2, <1>3, <1>4, RecvPushed

(* Steps of the clients and the kernel, and steps of the parent that touch *)
(* neither its table nor a queue.                                          *)
LEMMA QuietStep ==
  IdInv /\ (\/ Environment \/ EpollWait \/ SendQueueEmpty \/ HandleListen
            \/ AcceptEnds \/ AcceptFails \/ BatchDone)
    => IdInv'
<1> SUFFICES ASSUME IdInv,
                    \/ Environment \/ EpollWait \/ SendQueueEmpty
                    \/ HandleListen \/ AcceptEnds \/ AcceptFails
                    \/ BatchDone
             PROVE  IdInv'
  OBVIOUS
<1>1. UNCHANGED <<fds, seq, closeq, sess, recvq, sendq>>
  BY DEF Environment, Connect, ClientSend, ClientClose, ClientReset, WorkerCrash,
         EpollWait, SendQueueEmpty, HandleListen, AcceptEnds, AcceptFails,
         BatchDone, pvars,
         ptable, cvars
<1>2. ppc' \in {"parse", "gone"} => ppc' = ppc /\ cur' = cur
  BY DEF Environment, Connect, ClientSend, ClientClose, ClientReset, WorkerCrash,
         EpollWait, SendQueueEmpty, HandleListen, AcceptEnds, AcceptFails,
         BatchDone, pvars,
         ploop
<1>3. /\ (alive' = alive /\ hup' = hup) \/ (alive' = FALSE /\ hup' = TRUE)
      /\ hev' = hev \/ hev' = hup
  BY DEF Environment, Connect, ClientSend, ClientClose, ClientReset, WorkerCrash,
         EpollWait, SendQueueEmpty, HandleListen, AcceptEnds, AcceptFails,
         BatchDone, pvars,
         ploop, cvars, evars
<1>4. /\ alive \in BOOLEAN /\ hev \in BOOLEAN /\ hup \in BOOLEAN
      /\ (hev => hup) /\ (hup => ~alive)
  BY DEF IdInv, TableInv
<1>5. /\ alive' \in BOOLEAN /\ hev' \in BOOLEAN /\ hup' \in BOOLEAN
      /\ (hev' => hup') /\ (hup' => ~alive') /\ (alive' => alive)
  <2>1. CASE alive' = alive /\ hup' = hup /\ hev' = hev
    BY <1>4, <2>1
  <2>2. CASE alive' = alive /\ hup' = hup /\ hev' = hup
    BY <1>4, <2>2
  <2>3. CASE alive' = FALSE /\ hup' = TRUE
    BY <1>3, <1>4, <2>3
  <2> QED
    BY <1>3, <2>1, <2>2, <2>3
<1>6. TableInv'
  BY <1>1, <1>2, <1>5 DEF IdInv, TableInv
<1> QED
  BY <1>1, <1>5, <1>6, QueuesKept DEF IdInv

(* The part of TableInv that only a hang-up or a crash can change. *)
LEMMA FlagsKept ==
  ASSUME IdInv, UNCHANGED <<alive, hev, hup>>
  PROVE  /\ alive' \in BOOLEAN /\ hev' \in BOOLEAN /\ hup' \in BOOLEAN
         /\ (hev' => hup') /\ (hup' => ~alive')
  BY DEF IdInv, TableInv

(* iterate_close_queue (net.c:101-113) *)
LEMMA IterateCloseIds == IdInv /\ IterateClose => IdInv'
<1> SUFFICES ASSUME IdInv, IterateClose PROVE IdInv'
  OBVIOUS
<1>1. /\ Del(closeq) /\ closeq \in SUBSET Fds /\ ppc' \notin {"parse", "gone"}
      /\ UNCHANGED <<seq, alive, sess, hev, hup, recvq, sendq>>
  BY DEF IterateClose, IdInv, TableInv, EtinQueue, cvars, evars
<1>2. /\ TableTyped /\ IdsGrow /\ closeq' \subseteq Fds
      /\ \A fd \in Fds : fds'[fd].id = fds[fd].id
  BY <1>1, DelStep
<1>3. TableInv'
  BY <1>1, <1>2, FlagsKept DEF IdInv, TableInv, TableTyped
<1>4. SendInv'
  BY <1>1, <1>2, SendStep
<1>5. SessKept
  BY <1>1 DEF IdInv, SessKept
<1>6. RecvInv'
  BY <1>1, <1>2, <1>5, RecvKept
<1> QED
  BY <1>1, <1>3, <1>4, <1>6 DEF IdInv

(* schedule_output (net.c:422-446) *)
LEMMA SendQueueIds == IdInv /\ SendQueue => IdInv'
<1> SUFFICES ASSUME IdInv, SendQueue PROVE IdInv'
  OBVIOUS
<1> DEFINE b == Head(sendq)
<1>1. /\ ppc' = ppc /\ ppc \notin {"parse", "gone"} /\ sendq # <<>> /\ sendq' = Tail(sendq)
      /\ UNCHANGED <<seq, alive, sess, hev, hup>>
  BY DEF SendQueue, ploop, cvars, evars
<1>2. b \in Blocks /\ b.fd \in Fds
  BY <1>1, HeadTyped DEF IdInv, SendInv
<1>3. sess' \in [Fds -> Nat]
  BY <1>1 DEF IdInv
<1> HIDE DEF b
<1>4. CASE UNCHANGED <<fds, recvq>> /\ closeq' \subseteq Fds
  <2>1. TableInv'
    BY <1>1, <1>4, FlagsKept DEF IdInv, TableInv
  <2>2. TableTyped /\ IdsGrow
    BY <1>4 DEF IdInv, TableInv, TableTyped, IdsGrow
  <2>3. RecvInv'
    BY <1>1, <1>4 DEF IdInv, RecvInv, RecvBlock
  <2> QED
    BY <1>1, <1>3, <2>1, <2>2, <2>3, SendStep DEF IdInv
<1>5. CASE DelTelling(b.fd)
  <2>1. /\ TableTyped /\ IdsGrow /\ closeq' \subseteq Fds
        /\ \A fd \in Fds : fds'[fd].id = fds[fd].id
    BY <1>2, <1>5, DelStep DEF DelTelling
  <2>2. TableInv'
    BY <1>1, <2>1, FlagsKept DEF IdInv, TableInv, TableTyped
  <2> QED
    BY <1>1, <1>2, <1>3, <1>5, <2>1, <2>2, SendStep, DelTellingStep DEF IdInv
<1>6. \/ UNCHANGED <<fds, recvq>> /\ closeq' \subseteq Fds
      \/ DelTelling(b.fd)
  BY <1>2 DEF b, SendQueue, CloseLater, IdInv, TableInv, ptable
<1> QED
  BY <1>4, <1>5, <1>6

(* The parent deletes one connection outside net_recv, and goes on. *)
LEMMA DelIds ==
  ASSUME IdInv, NEW fd \in Fds, DelTelling(fd), ppc' \notin {"parse", "gone"},
         UNCHANGED <<seq, alive, sess, hev, hup, sendq>>
  PROVE  IdInv'
<1>1. /\ TableTyped /\ IdsGrow /\ closeq' \subseteq Fds
      /\ \A f \in Fds : fds'[f].id = fds[f].id
  BY DelStep DEF DelTelling
<1>2. TableInv'
  BY <1>1, FlagsKept DEF IdInv, TableInv, TableTyped
<1>3. sess' \in [Fds -> Nat]
  BY DEF IdInv
<1> QED
  BY <1>1, <1>2, <1>3, SendStep, DelTellingStep DEF IdInv

(* An event of a connection (net.c:521-599) *)
LEMMA HandleConnIds == \A fd \in Fds : IdInv /\ HandleConn(fd) => IdInv'
<1> SUFFICES ASSUME NEW fd \in Fds, IdInv, HandleConn(fd) PROVE IdInv'
  OBVIOUS
<1>1. /\ ppc = "events" /\ UNCHANGED <<seq, alive, sess, hev, hup, sendq>>
  BY DEF HandleConn, cvars, evars
<1>2. CASE ReadEof(fd)
  BY <1>1, <1>2, DelIds DEF ReadEof
<1>3. CASE SkipEvent(fd) \/ ReadPackets(fd) \/ ReadNothing(fd)
  <2>1. /\ UNCHANGED <<fds, closeq, recvq>>
        /\ ppc' \in {"parse", "gone"} => cur' = fd /\ fds[fd].type = "remote"
    BY <1>1, <1>3 DEF SkipEvent, ReadPackets, ReadNothing, ptable
  <2>2. TableInv'
    BY <1>1, <2>1, FlagsKept DEF IdInv, TableInv
  <2>3. alive' => alive
    BY <1>1
  <2> QED
    BY <1>1, <2>1, <2>2, <2>3, QueuesKept DEF IdInv
<1> QED
  BY <1>2, <1>3 DEF HandleConn

(* The rest of net_recv (net.c:342-405) *)
LEMMA ParsePacketIds == IdInv /\ ParsePacket => IdInv'
<1> SUFFICES ASSUME IdInv, ParsePacket PROVE IdInv'
  OBVIOUS
<1>1. /\ ppc = "parse" /\ cur \in Fds /\ fds[cur].type = "remote"
      /\ UNCHANGED <<seq, alive, sess, hev, hup, sendq>>
  BY DEF ParsePacket, IdInv, TableInv, cvars, evars
<1> DEFINE b == Block("DATA", cur, fds[cur].id, fds[cur].id)
<1>2. CASE recvq' = Append(recvq, b) /\ UNCHANGED <<fds, closeq, ppc, cur>>
  <2>1. fds[cur].id \in Nat
    BY <1>1 DEF IdInv, TableInv
  <2>2. b \in Blocks /\ b.fd = cur /\ b.id = fds[cur].id /\ b.src = b.id
    BY <1>1, <2>1 DEF Block, Blocks
  <2>3. TableTyped /\ IdsGrow /\ SessKept
    BY <1>1, <1>2 DEF IdInv, TableInv, TableTyped, IdsGrow, SessKept
  <2>4. TableInv'
    BY <1>1, <1>2, FlagsKept DEF IdInv, TableInv
  <2> HIDE DEF b
  <2>5. RecvInv'
    BY <1>1, <1>2, <2>2, <2>3, RecvPushed
  <2>6. SendInv'
    BY <1>1, <2>3, SendStep
  <2> QED
    BY <2>3, <2>4, <2>5, <2>6 DEF IdInv, SessKept
<1>3. CASE UNCHANGED <<fds, closeq, recvq, cur>> /\ ppc' = "gone"
  <2>1. TableInv'
    BY <1>1, <1>3, FlagsKept DEF IdInv, TableInv
  <2>2. alive' => alive
    BY <1>1
  <2> QED
    BY <1>1, <1>3, <2>1, <2>2, QueuesKept DEF IdInv
<1>4. CASE UNCHANGED <<fds, closeq, recvq>> /\ ppc' = "events"
  <2>1. TableInv'
    BY <1>1, <1>4, FlagsKept DEF IdInv, TableInv
  <2>2. alive' => alive
    BY <1>1
  <2> QED
    BY <1>1, <1>4, <2>1, <2>2, QueuesKept DEF IdInv
<1> QED
  BY <1>2, <1>3, <1>4 DEF ParsePacket, ptable

(* do_del_conn after net_recv (net.c:580-582) *)
LEMMA GiveUpIds == IdInv /\ GiveUp => IdInv'
<1> SUFFICES ASSUME IdInv, GiveUp PROVE IdInv'
  OBVIOUS
<1>1. /\ cur \in Fds /\ DelTelling(cur) /\ ppc' = "events"
      /\ UNCHANGED <<seq, alive, sess, hev, hup, sendq>>
  BY DEF GiveUp, IdInv, TableInv, cvars, evars
<1> QED
  BY <1>1, DelIds

(* do_open_conn (net.c:246-272) *)
LEMMA AcceptIds == IdInv /\ Accept => IdInv'
<1> SUFFICES ASSUME IdInv, Accept PROVE IdInv'
  OBVIOUS
<1> DEFINE fd == CHOOSE f \in Free : \A other \in Free : f <= other
           b  == Block("OPEN", fd, seq + 1, 0)
<1>1. fd \in Free /\ fd \in Fds
  BY LeastFd DEF Accept, Free
<1>2. /\ UNCHANGED <<closeq, alive, sess, hev, hup, sendq, ppc, cur>>
      /\ ppc \notin {"parse", "gone"} /\ seq' = seq + 1
      /\ recvq' \in {recvq, Append(recvq, b)}
      /\ \E type \in {"unused", "remote"} :
           fds' = [fds EXCEPT ![fd] = [type |-> type, id |-> seq + 1]]
  BY DEF Accept, AddConn, Pushed, ploop, cvars
<1>3. /\ fds \in [Fds -> [type : {"unused", "remote"}, id : Nat]]
      /\ seq \in Nat /\ \A f \in Fds : fds[f].id <= seq /\ fds[f].id \in Nat
  BY DEF IdInv, TableInv
<1>4. b \in Blocks /\ b.fd = fd /\ b.id = seq + 1 /\ b.type = "OPEN"
  BY <1>1, <1>3 DEF Block, Blocks
<1> HIDE DEF fd, b
<1>5. TableTyped
  BY <1>1, <1>2, <1>3 DEF TableTyped
<1>6. \A f \in Fds : fds'[f].id = IF f = fd THEN seq + 1 ELSE fds[f].id
  BY <1>1, <1>2, <1>3
<1>7. IdsGrow /\ SessKept
  BY <1>2, <1>3, <1>6 DEF IdInv, IdsGrow, SessKept
<1>8. \A f \in Fds : fds'[f].id <= seq'
  BY <1>2, <1>3, <1>6
<1>9. TableInv'
  BY <1>2, <1>3, <1>5, <1>8, FlagsKept DEF IdInv, TableInv, TableTyped
<1>10. RecvInv'
  BY <1>1, <1>2, <1>4, <1>5, <1>6, <1>7, RecvPushed
<1> QED
  BY <1>2, <1>5, <1>7, <1>9, <1>10, SendStep DEF IdInv, SessKept

(* handle_pipe_event (net.c:620-640) *)
LEMMA HandleHangupIds == IdInv /\ HandleHangup => IdInv'
<1> SUFFICES ASSUME IdInv, HandleHangup PROVE IdInv'
  OBVIOUS
<1>1. /\ Del(Fds) /\ ppc = "events" /\ hev' = FALSE /\ hup' = FALSE
      /\ ~alive /\ alive' \in BOOLEAN /\ UNCHANGED <<ppc, seq, cur>>
  BY DEF HandleHangup, RestartChild, IdInv, TableInv, cvars
<1>2. /\ TableTyped /\ IdsGrow /\ closeq' \subseteq Fds
      /\ \A f \in Fds : fds'[f].id = fds[f].id /\ fds'[f].id \in Nat
  BY <1>1, DelStep DEF IdInv, TableInv
<1>3. TableInv'
  BY <1>1, <1>2 DEF IdInv, TableInv, TableTyped
<1>4. CASE RestartChild
  <2>1. recvq' = <<>> /\ sendq' = <<>> /\ sess' = [fd \in Fds |-> 0]
    BY <1>4 DEF RestartChild, FreshWorker
  <2>2. RecvInv' /\ SendInv' /\ sess' \in [Fds -> Nat]
    BY <1>2, <2>1 DEF RecvInv, SendInv
  <2> QED
    BY <1>3, <2>2 DEF IdInv
<1>5. CASE UNCHANGED <<cvars, sendq>>
  <2>1. ~alive' /\ UNCHANGED <<sess, sendq>>
    BY <1>1, <1>5 DEF cvars
  <2> QED
    BY <1>2, <1>3, <2>1, SendStep DEF IdInv, RecvInv
<1> QED
  BY <1>4, <1>5 DEF HandleHangup

(* The reaping of idle connections (net.c:602-611) *)
LEMMA ReapIds == IdInv /\ Reap => IdInv'
<1> SUFFICES ASSUME IdInv, Reap PROVE IdInv'
  OBVIOUS
<1>1. /\ UNCHANGED <<seq, alive, sess, hev, hup, sendq, cur>> /\ ppc' \notin {"parse", "gone"}
  BY DEF Reap, cvars, evars
<1>2. CASE \E fd \in Fds \ Free : DelTelling(fd)
  BY <1>1, <1>2, DelIds
<1>3. CASE UNCHANGED <<fds, closeq, recvq>>
  <2>1. TableInv'
    BY <1>1, <1>3, FlagsKept DEF IdInv, TableInv
  <2>2. alive' => alive
    BY <1>1
  <2> QED
    BY <1>1, <1>3, <2>1, <2>2, QueuesKept DEF IdInv
<1> QED
  BY <1>2, <1>3 DEF Reap, ptable

(* The worker leaves the parent's state alone. *)
LEMMA WorkerTable ==
  ASSUME IdInv, UNCHANGED <<pvars, alive, hup>>
  PROVE  TableInv' /\ TableTyped /\ IdsGrow /\ UNCHANGED <<fds, closeq>>
<1>1. UNCHANGED <<fds, seq, closeq, ppc, cur, hev, alive, hup>>
  BY DEF pvars, ptable, ploop
<1> QED
  BY <1>1, FlagsKept DEF IdInv, TableInv, TableTyped, IdsGrow

(* A push of the worker whose result is ignored. *)
LEMMA WorkerPush ==
  ASSUME IdInv, TableTyped, IdsGrow, NEW b \in Blocks, SendBlock(b),
         sendq' = Pushed(sendq, b)
  PROVE  SendInv'
<1>1. sendq' = sendq \/ sendq' = Append(sendq, b)
  BY DEF Pushed
<1> QED
  BY <1>1, SendStep

(* handle_open (service.c:62-77) *)
LEMMA PopOpenIds == IdInv /\ PopOpen => IdInv'
<1> SUFFICES ASSUME IdInv, PopOpen PROVE IdInv'
  OBVIOUS
<1> DEFINE b == Head(recvq)
           f == Block("FIN", b.fd, b.id, 0)
<1>1. /\ alive /\ recvq # <<>> /\ recvq' = Tail(recvq)
      /\ UNCHANGED <<pvars, alive, hup>>
  BY DEF PopOpen, evars
<1>2. /\ b \in Blocks /\ b.fd \in Fds /\ b.id \in Nat
      /\ RecvBlock(b)
  <2>1. recvq \in Seq(Blocks) /\ \A i \in DOMAIN recvq : RecvBlock(recvq[i])
    BY <1>1 DEF IdInv, RecvInv
  <2> QED
    BY <1>1, <2>1, HeadTyped, BlockTyped
<1>3. f \in Blocks /\ f.fd = b.fd /\ f.id = b.id /\ f.type = "FIN"
  BY <1>2 DEF Block, Blocks
<1>4. SendBlock(f)
  BY <1>2, <1>3 DEF SendBlock, RecvBlock
<1>5. \/ sess' = [sess EXCEPT ![b.fd] = b.id] /\ sendq' = sendq
      \/ sess' = sess /\ sendq' = Pushed(sendq, f)
  BY DEF PopOpen
<1> HIDE DEF b, f
<1>6. TableInv' /\ TableTyped /\ IdsGrow /\ fds' = fds
  BY <1>1, WorkerTable
<1>7. /\ sess' \in [Fds -> Nat] /\ sess \in [Fds -> Nat]
      /\ \A fd \in Fds : sess'[fd] <= sess[fd] \/ (fd = b.fd /\ sess'[fd] = b.id)
  BY <1>2, <1>5 DEF IdInv
<1>8. RecvInv'
  BY <1>1, <1>6, <1>7, RecvPopped DEF b
<1>9. SendInv'
  BY <1>3, <1>4, <1>5, <1>6, SendStep, WorkerPush
<1> QED
  BY <1>6, <1>7, <1>8, <1>9 DEF IdInv

(* handle_process (service.c:91-99) *)
LEMMA PopDataIds == IdInv /\ PopData => IdInv'
<1> SUFFICES ASSUME IdInv, PopData PROVE IdInv'
  OBVIOUS
<1> DEFINE b == Head(recvq)
           a == Block("DATA", b.fd, sess[b.fd], b.src)
<1>1. /\ alive /\ recvq # <<>> /\ recvq' = Tail(recvq) /\ b.type = "DATA"
      /\ UNCHANGED <<pvars, alive, hup, sess>>
  BY DEF PopData, evars
<1>2. /\ b \in Blocks /\ b.fd \in Fds /\ b.id \in Nat /\ b.src \in Nat
      /\ RecvBlock(b)
  <2>1. recvq \in Seq(Blocks) /\ \A i \in DOMAIN recvq : RecvBlock(recvq[i])
    BY <1>1 DEF IdInv, RecvInv
  <2> QED
    BY <1>1, <2>1, HeadTyped, BlockTyped
<1>3. /\ sess \in [Fds -> Nat] /\ sess[b.fd] \in Nat /\ fds[b.fd].id \in Nat
  BY <1>2 DEF IdInv, TableInv
<1>4. a \in Blocks /\ a.fd = b.fd /\ a.id = sess[b.fd] /\ a.src = b.src
  BY <1>2, <1>3 DEF Block, Blocks
<1>5. sess[b.fd] <= b.id /\ b.id <= fds[b.fd].id /\ b.src = b.id
  BY <1>1, <1>2 DEF RecvBlock
<1>6. sendq' = sendq \/ sendq' = Pushed(sendq, a)
  BY DEF PopData
<1> HIDE DEF b, a
<1>7. SendBlock(a)
  BY <1>2, <1>3, <1>4, <1>5 DEF SendBlock
<1>8. TableInv' /\ TableTyped /\ IdsGrow /\ fds' = fds
  BY <1>1, WorkerTable
<1>9. /\ sess' \in [Fds -> Nat] /\ \A fd \in Fds : sess'[fd] <= sess[fd]
  BY <1>1, <1>3
<1>10. RecvInv'
  BY <1>1, <1>8, <1>9, RecvPopped
<1>11. SendInv'
  BY <1>4, <1>6, <1>7, <1>8, SendStep, WorkerPush
<1> QED
  BY <1>8, <1>9, <1>10, <1>11 DEF IdInv

(* handle_close (service.c:79-89) *)
LEMMA PopCloseIds == IdInv /\ PopClose => IdInv'
<1> SUFFICES ASSUME IdInv, PopClose PROVE IdInv'
  OBVIOUS
<1>1. /\ alive /\ recvq # <<>> /\ recvq' = Tail(recvq) /\ sendq' = sendq
      /\ UNCHANGED <<pvars, alive, hup>>
      /\ sess' = [sess EXCEPT ![Head(recvq).fd] = 0]
  BY DEF PopClose, HandleClose, evars
<1>2. TableInv' /\ TableTyped /\ IdsGrow /\ fds' = fds
  BY <1>1, WorkerTable
<1>3. /\ sess' \in [Fds -> Nat]
      /\ \A fd \in Fds : sess'[fd] <= sess[fd]
  <2>1. sess \in [Fds -> Nat] /\ Head(recvq).fd \in Fds
    BY <1>1, HeadTyped DEF IdInv, RecvInv
  <2> QED
    BY <1>1, <2>1
<1>4. RecvInv'
  BY <1>1, <1>2, <1>3, RecvPopped
<1> QED
  BY <1>1, <1>2, <1>3, <1>4, SendStep DEF IdInv

(* close_client_conn (net_if.c:208-224) *)
LEMMA CloseClientConnIds == \A fd \in Fds : IdInv /\ CloseClientConn(fd) => IdInv'
<1> SUFFICES ASSUME NEW fd \in Fds, IdInv, CloseClientConn(fd) PROVE IdInv'
  OBVIOUS
<1> DEFINE f == Block("FIN", fd, sess[fd], 0)
<1>1. /\ alive /\ recvq' = recvq /\ UNCHANGED <<pvars, alive, hup>>
      /\ sess' = [sess EXCEPT ![fd] = 0] /\ sendq' = Pushed(sendq, f)
  BY DEF CloseClientConn, HandleClose, evars
<1>2. /\ sess \in [Fds -> Nat] /\ sess[fd] \in Nat
      /\ sess[fd] <= fds[fd].id
  BY <1>1 DEF IdInv, RecvInv
<1>3. f \in Blocks /\ f.fd = fd /\ f.id = sess[fd] /\ f.type = "FIN"
  BY <1>2 DEF Block, Blocks
<1> HIDE DEF f
<1>4. SendBlock(f)
  BY <1>2, <1>3 DEF SendBlock
<1>5. TableInv' /\ TableTyped /\ IdsGrow /\ fds' = fds
  BY <1>1, WorkerTable
<1>6. SessKept
  BY <1>1, <1>2 DEF SessKept
<1>7. RecvInv'
  BY <1>1, <1>5, <1>6, RecvKept
<1>8. SendInv'
  BY <1>1, <1>3, <1>4, <1>5, WorkerPush
<1> QED
  BY <1>5, <1>6, <1>7, <1>8 DEF IdInv, SessKept

LEMMA IdInit == Init => IdInv
<1> SUFFICES ASSUME Init PROVE IdInv
  OBVIOUS
<1>1. /\ fds \in [Fds -> [type : {"unused", "remote"}, id : Nat]]
      /\ \A fd \in Fds : fds[fd].id = 0
  BY DEF Init
<1>2. /\ seq = 0 /\ closeq = {} /\ ppc = "close"
      /\ alive = TRUE /\ hev = FALSE /\ hup = FALSE
  BY DEF Init
<1>3. TableInv
  <2>1. seq \in Nat /\ (\A fd \in Fds : fds[fd].id <= seq)
    BY <1>1, <1>2
  <2>2. /\ alive \in BOOLEAN /\ hev \in BOOLEAN /\ hup \in BOOLEAN
        /\ (hev => hup) /\ (hup => ~alive)
    BY <1>2
  <2> QED
    BY <1>1, <1>2, <2>1, <2>2 DEF TableInv
<1> QED
  BY <1>1, <1>3 DEF Init, IdInv, RecvInv, SendInv

LEMMA IdStep == IdInv /\ [Next]_vars => IdInv'
<1> SUFFICES ASSUME IdInv, [Next]_vars PROVE IdInv'
  OBVIOUS
<1>1. CASE UNCHANGED vars
  <2>1. UNCHANGED <<fds, seq, closeq, ppc, cur, hev, alive, hup, sess, recvq, sendq>>
    BY <1>1 DEF vars, pvars, ptable, ploop, cvars, evars
  <2>2. TableInv'
    BY <2>1, FlagsKept DEF IdInv, TableInv
  <2>3. alive' => alive
    BY <2>1
  <2> QED
    BY <2>1, <2>2, <2>3, QueuesKept DEF IdInv
<1>2. CASE Environment
  BY <1>2, QuietStep
<1>3. CASE Parent
  BY <1>3, QuietStep, IterateCloseIds, SendQueueIds, ParsePacketIds, GiveUpIds, AcceptIds,
     HandleHangupIds, ReapIds, HandleConnIds DEF Parent
<1>4. CASE Worker
  BY <1>4, PopOpenIds, PopDataIds, PopCloseIds, CloseClientConnIds DEF Worker
<1> QED
  BY <1>1, <1>2, <1>3, <1>4 DEF Next

(* What schedule_output writes to a client answers a packet of that client *)
(* (net.c:432), however often descriptors are reused, whatever the queues  *)
(* drop, and across crashes of the worker.                                 *)
THEOREM AnswersReachTheirClientThm == Spec => []AnswersReachTheirClient
<1>1. IdInv => AnswersReachTheirClient
  <2> SUFFICES ASSUME IdInv, NEW i \in DOMAIN sendq,
                      sendq[i].type = "DATA", Deliverable(sendq[i])
               PROVE  sendq[i].src = fds[sendq[i].fd].id
    BY DEF AnswersReachTheirClient
  <2>1. SendBlock(sendq[i]) /\ sendq[i].fd \in Fds /\ sendq[i].id \in Nat
    BY BlockTyped DEF IdInv, SendInv
  <2> QED
    BY <2>1 DEF SendBlock, Deliverable
<1> QED
  BY <1>1, IdInit, IdStep, PTL DEF Spec
-----------------------------------------------------------------------------
(***************************************************************************)
(* Sessions and connections, while no queue is full.                       *)
(***************************************************************************)
LEMMA RangeAppend ==
  ASSUME NEW q \in Seq(Blocks), NEW b \in Blocks
  PROVE  Range(Append(q, b)) = Range(q) \cup {b}
<1>1. /\ Append(q, b) \in Seq(Blocks) /\ Len(Append(q, b)) = Len(q) + 1
      /\ Len(q) \in Nat /\ Append(q, b)[Len(q) + 1] = b
      /\ \A i \in 1 .. Len(q) : Append(q, b)[i] = q[i]
  OBVIOUS
<1>2. DOMAIN q = 1 .. Len(q) /\ DOMAIN Append(q, b) = 1 .. Len(q) + 1
  BY <1>1
<1>3. Range(q) \cup {b} \subseteq Range(Append(q, b))
  BY <1>1, <1>2 DEF Range
<1>4. ASSUME NEW i \in 1 .. Len(q) + 1
      PROVE  Append(q, b)[i] \in Range(q) \cup {b}
  <2>1. i \in 1 .. Len(q) \/ i = Len(q) + 1
    BY <1>1
  <2> QED
    BY <1>1, <1>2, <2>1 DEF Range
<1> QED
  BY <1>2, <1>3, <1>4 DEF Range

LEMMA RangeTail ==
  ASSUME NEW q \in Seq(Blocks), q # <<>>
  PROVE  Range(q) = {Head(q)} \cup Range(Tail(q))
<1>1. /\ Tail(q) \in Seq(Blocks) /\ Len(Tail(q)) = Len(q) - 1 /\ Len(q) \in Nat
      /\ \A i \in 1 .. Len(q) - 1 : Tail(q)[i] = q[i + 1]
      /\ Head(q) = q[1] /\ 1 \in 1 .. Len(q)
  OBVIOUS
<1>2. DOMAIN q = 1 .. Len(q) /\ DOMAIN Tail(q) = 1 .. Len(q) - 1
  BY <1>1
<1>3. ASSUME NEW i \in 1 .. Len(q) - 1
      PROVE  Tail(q)[i] \in Range(q)
  <2>1. i + 1 \in 1 .. Len(q)
    BY <1>1
  <2> QED
    BY <1>1, <1>2, <2>1 DEF Range
<1>4. ASSUME NEW i \in 1 .. Len(q)
      PROVE  q[i] \in {Head(q)} \cup Range(Tail(q))
  <2>1. i = 1 \/ (i - 1 \in 1 .. Len(q) - 1 /\ (i - 1) + 1 = i)
    BY <1>1
  <2>2. i = 1 \/ (i - 1 \in DOMAIN Tail(q) /\ Tail(q)[i - 1] = q[i])
    BY <1>1, <1>2, <2>1
  <2> QED
    BY <1>1, <2>2 DEF Range
<1>5. Head(q) \in Range(q)
  BY <1>1, <1>2 DEF Range
<1> QED
  BY <1>2, <1>3, <1>4, <1>5 DEF Range

(* A block that is pushed keeps the order. *)
LEMMA OrderedAppend ==
  ASSUME NEW q \in Seq(Blocks), NEW b \in Blocks, Ordered(q),
         \A a \in Range(q) :
           a.fd = b.fd /\ (b.type = "OPEN" \/ a.type = "CLOSE") => a.id < b.id
  PROVE  Ordered(Append(q, b))
<1>1. /\ Append(q, b) \in Seq(Blocks) /\ Len(q) \in Nat
      /\ DOMAIN Append(q, b) = 1 .. Len(q) + 1 /\ DOMAIN q = 1 .. Len(q)
      /\ Append(q, b)[Len(q) + 1] = b
      /\ \A i \in 1 .. Len(q) : Append(q, b)[i] = q[i] /\ q[i] \in Range(q)
  BY DEF Range
<1> SUFFICES ASSUME NEW i \in 1 .. Len(q) + 1, NEW j \in 1 .. Len(q) + 1, i < j,
                    Append(q, b)[i].fd = Append(q, b)[j].fd,
                    \/ Append(q, b)[j].type = "OPEN"
                    \/ Append(q, b)[i].type = "CLOSE"
             PROVE  Append(q, b)[i].id < Append(q, b)[j].id
  BY <1>1 DEF Ordered
<1>2. i \in 1 .. Len(q) /\ (j \in 1 .. Len(q) \/ j = Len(q) + 1)
  BY <1>1
<1> QED
  BY <1>1, <1>2 DEF Ordered

(* Nor does a pop disturb it; and the block that is popped came first. *)
LEMMA OrderedTail ==
  ASSUME NEW q \in Seq(Blocks), q # <<>>, Ordered(q)
  PROVE  /\ Ordered(Tail(q))
         /\ \A a \in Range(Tail(q)) :
              a.fd = Head(q).fd /\ (a.type = "OPEN" \/ Head(q).type = "CLOSE")
                => Head(q).id < a.id
<1>1. /\ Tail(q) \in Seq(Blocks) /\ Len(q) \in Nat /\ 1 \in 1 .. Len(q)
      /\ DOMAIN Tail(q) = 1 .. Len(q) - 1 /\ DOMAIN q = 1 .. Len(q)
      /\ \A i \in 1 .. Len(q) - 1 : Tail(q)[i] = q[i + 1]
      /\ Head(q) = q[1]
  OBVIOUS
<1>2. \A i \in 1 .. Len(q) - 1 : i + 1 \in 1 .. Len(q) /\ 1 < i + 1
  BY <1>1
<1>3. Ordered(Tail(q))
  <2> SUFFICES ASSUME NEW i \in 1 .. Len(q) - 1, NEW j \in 1 .. Len(q) - 1, i < j,
                      q[i + 1].fd = q[j + 1].fd,
                      q[j + 1].type = "OPEN" \/ q[i + 1].type = "CLOSE"
               PROVE  q[i + 1].id < q[j + 1].id
    BY <1>1 DEF Ordered
  <2>1. i + 1 < j + 1
    OBVIOUS
  <2> QED
    BY <1>1, <1>2, <2>1 DEF Ordered
<1>4. ASSUME NEW a \in Range(Tail(q)), a.fd = Head(q).fd,
             a.type = "OPEN" \/ Head(q).type = "CLOSE"
      PROVE  Head(q).id < a.id
  <2>1. PICK i \in 1 .. Len(q) - 1 : a = q[i + 1]
    BY <1>1 DEF Range
  <2> QED
    BY <1>1, <1>2, <1>4, <2>1 DEF Ordered
<1> QED
  BY <1>3, <1>4

(* What IdInv says of the blocks of a running worker. *)
LEMMA IdFacts ==
  ASSUME IdInv, alive
  PROVE  /\ recvq \in Seq(Blocks) /\ sendq \in Seq(Blocks) /\ seq \in Nat
         /\ fds \in [Fds -> [type : {"unused", "remote"}, id : Nat]]
         /\ sess \in [Fds -> Nat] /\ closeq \subseteq Fds
         /\ \A fd \in Fds : /\ fds[fd].id \in Nat /\ fds[fd].id <= seq
                            /\ sess[fd] \in Nat /\ sess[fd] <= fds[fd].id
         /\ \A b \in Range(recvq) : /\ b \in Blocks /\ b.fd \in Fds /\ b.id \in Nat
                                    /\ sess[b.fd] <= b.id /\ b.id <= fds[b.fd].id
         /\ \A b \in Range(sendq) : /\ b \in Blocks /\ b.fd \in Fds /\ b.id \in Nat
                                    /\ b.id <= fds[b.fd].id
<1>1. /\ recvq \in Seq(Blocks) /\ sendq \in Seq(Blocks) /\ seq \in Nat
      /\ fds \in [Fds -> [type : {"unused", "remote"}, id : Nat]]
      /\ sess \in [Fds -> Nat] /\ closeq \subseteq Fds
      /\ \A fd \in Fds : fds[fd].id <= seq /\ sess[fd] <= fds[fd].id
      /\ \A i \in DOMAIN recvq : RecvBlock(recvq[i])
      /\ \A i \in DOMAIN sendq : SendBlock(sendq[i])
  BY DEF IdInv, TableInv, RecvInv, SendInv
<1>2. \A fd \in Fds : fds[fd].id \in Nat /\ sess[fd] \in Nat
  BY <1>1
<1>3. \A b \in Range(recvq) : b \in Blocks /\ b.fd \in Fds /\ b.id \in Nat /\ RecvBlock(b)
  BY <1>1, BlockTyped DEF Range
<1>4. \A b \in Range(sendq) : b \in Blocks /\ b.fd \in Fds /\ b.id \in Nat /\ SendBlock(b)
  BY <1>1, BlockTyped DEF Range
<1> QED
  BY <1>1, <1>2, <1>3, <1>4 DEF RecvBlock, SendBlock

(* The head of the receive queue is of no connection later than its        *)
(* session.                                                                *)
LEMMA HeadMeetsSession == IdInv /\ SessionInv => BlocksMeetTheirSession
<1> SUFFICES ASSUME IdInv, SessionInv, alive, recvq # <<>>,
                    NEW b, b = Head(recvq), b.type \in {"OPEN", "DATA"},
                    sess[b.fd] # 0, b.type = "DATA" => sess[b.fd] # b.id
             PROVE  FALSE
  BY DEF BlocksMeetTheirSession
<1>1. /\ recvq \in Seq(Blocks) /\ DOMAIN recvq = 1 .. Len(recvq)
      /\ 1 \in 1 .. Len(recvq) /\ b = recvq[1] /\ b \in Range(recvq)
  <2>1. recvq \in Seq(Blocks)
    BY IdFacts
  <2> QED
    BY <2>1 DEF Range
<1>2. /\ b.fd \in Fds /\ b.id \in Nat /\ sess[b.fd] \in Nat /\ fds[b.fd].id \in Nat
      /\ sess[b.fd] <= b.id /\ b.id <= fds[b.fd].id
  BY <1>1, IdFacts
<1>3. sess[b.fd] < b.id
  BY <1>1, <1>2 DEF SessionInv, OrderInv
<1>4. InQueue(recvq, "CLOSE", b.fd, sess[b.fd])
  <2>1. \/ fds[b.fd] = [type |-> "remote", id |-> sess[b.fd]]
        \/ InQueue(recvq, "CLOSE", b.fd, sess[b.fd])
    BY <1>2 DEF SessionInv, SessionsEnd
  <2>2. fds[b.fd] # [type |-> "remote", id |-> sess[b.fd]]
    BY <1>2, <1>3
  <2> QED
    BY <2>1, <2>2
<1>5. PICK i \in 1 .. Len(recvq) :
        recvq[i].type = "CLOSE" /\ recvq[i].fd = b.fd /\ recvq[i].id = sess[b.fd]
  BY <1>1, <1>4 DEF InQueue, Range
<1>6. 1 < i
  BY <1>1, <1>5
<1>7. b.id <= sess[b.fd]
  BY <1>1, <1>5, <1>6 DEF IdInv, RecvInv
<1> QED
  BY <1>2, <1>3, <1>7

(* A connection is deleted, and the worker is told; the send queue keeps   *)
(* its FIN_BLOCKs.                                                         *)
LEMMA DelSession ==
  ASSUME IdInv, SessionInv, HasRoom, NEW f \in Fds, DelTelling(f),
         fds[f].type = "remote", UNCHANGED <<alive, sess>>,
         \A b \in Range(sendq') : b \in Range(sendq),
         \A b \in Range(sendq) : b.type = "FIN" => b \in Range(sendq')
  PROVE  SessionInv'
<1> SUFFICES ASSUME alive, alive' PROVE SessionInv'
  BY DEF SessionInv
<1> DEFINE n == fds[f].id
           c == Block("CLOSE", f, n, 0)
<1>1. /\ recvq' = Append(recvq, c) /\ closeq' = closeq \ {f}
      /\ Del({f})
  BY DEF DelTelling, Pushed, HasRoom, Del
<1>2. \A fd \in Fds : /\ fds'[fd].id = fds[fd].id
                      /\ fd = f => fds'[fd].type = "unused"
                      /\ fd # f => fds'[fd] = fds[fd]
  BY <1>1, DelStep
<1>3. c \in Blocks /\ c.type = "CLOSE" /\ c.fd = f /\ c.id = n
  BY IdFacts DEF Block, Blocks
<1>4. Range(recvq') = Range(recvq) \cup {c}
  BY <1>1, <1>3, IdFacts, RangeAppend
<1> HIDE DEF c
<1>5. \A t, fd, id : InQueue(recvq, t, fd, id) => InQueue(recvq', t, fd, id)
  BY <1>4 DEF InQueue
<1>6. \A fd, id : InQueue(recvq', "OPEN", fd, id) => InQueue(recvq, "OPEN", fd, id)
  BY <1>3, <1>4 DEF InQueue
<1>7. InQueue(recvq', "CLOSE", f, n)
  BY <1>3, <1>4 DEF InQueue
<1>8. OrderInv'
  <2>1. Ordered(recvq')
    <3>1. \A a \in Range(recvq) : a.fd = f /\ a.type = "CLOSE" => a.id < n
      BY IdFacts DEF SessionInv, OrderInv
    <3> QED
      BY <1>1, <1>3, <3>1, IdFacts, OrderedAppend DEF SessionInv, OrderInv
  <2> QED
    BY <1>2, <1>3, <1>4, <2>1, IdFacts DEF SessionInv, OrderInv
<1>9. OpenInv'
  BY <1>2, <1>3, <1>4, <1>5, <1>7, IdFacts DEF SessionInv, OpenInv
<1>10. FinInv'
  BY <1>1, <1>2, <1>6, IdFacts DEF SessionInv, FinInv, Ended
<1>11. SessionsEnd'
  BY <1>2, <1>5, <1>7 DEF SessionInv, SessionsEnd
<1>12. ConnectionsAreServed'
  <2>1. \A fd, id : InQueue(sendq, "FIN", fd, id) => InQueue(sendq', "FIN", fd, id)
    BY DEF InQueue
  <2> QED
    BY <1>1, <1>2, <1>5, <2>1 DEF SessionInv, ConnectionsAreServed
<1> QED
  BY <1>8, <1>9, <1>10, <1>11, <1>12 DEF SessionInv

(* Steps that leave the table, the sessions and the queues alone. *)
LEMMA SessionKept ==
  ASSUME SessionInv, UNCHANGED <<fds, closeq, sess, recvq, sendq>>, alive' => alive
  PROVE  SessionInv'
  BY DEF SessionInv, OrderInv, OpenInv, FinInv, Ended, SessionsEnd,
         ConnectionsAreServed

(* A connection in the close queue has no session and is not being opened, *)
(* so nobody has to be told that it is deleted.                            *)
LEMMA IterateCloseSession ==
  IdInv /\ SessionInv /\ IterateClose => SessionInv'
<1> SUFFICES ASSUME IdInv, SessionInv, IterateClose, alive, alive'
             PROVE  SessionInv'
  BY DEF SessionInv, IterateClose, cvars
<1>1. /\ Del(closeq) /\ closeq \in SUBSET Fds /\ closeq' = {}
      /\ UNCHANGED <<sess, recvq, sendq>>
  BY IdFacts DEF IterateClose, Del, cvars
<1>2. \A fd \in Fds : /\ fds'[fd].id = fds[fd].id
                      /\ fd \in closeq => fds'[fd].type = "unused"
                      /\ fd \notin closeq => fds'[fd] = fds[fd]
  BY <1>1, DelStep
<1>3. OrderInv'
  BY <1>1, <1>2, IdFacts DEF SessionInv, OrderInv
<1>4. OpenInv'
  <2> SUFFICES ASSUME NEW b \in Range(recvq), b.type = "OPEN",
                      fds[b.fd] = [type |-> "remote", id |-> b.id]
               PROVE  fds'[b.fd] = [type |-> "remote", id |-> b.id]
    BY <1>1 DEF SessionInv, OpenInv
  <2>1. b.fd \in Fds /\ fds[b.fd].id = b.id /\ InQueue(recvq, "OPEN", b.fd, b.id)
    BY IdFacts DEF InQueue
  <2>2. b.fd \notin closeq
    BY <2>1 DEF SessionInv, FinInv, Ended
  <2> QED
    BY <1>2, <2>1, <2>2
<1>5. FinInv'
  BY <1>1 DEF SessionInv, FinInv, Ended
<1>6. SessionsEnd'
  <2>1. \A fd \in closeq : fds[fd] # [type |-> "remote", id |-> sess[fd]]
    BY DEF SessionInv, FinInv, Ended
  <2> QED
    BY <1>1, <1>2, <2>1 DEF SessionInv, SessionsEnd
<1>7. ConnectionsAreServed'
  BY <1>1, <1>2 DEF SessionInv, ConnectionsAreServed
<1> QED
  BY <1>3, <1>4, <1>5, <1>6, <1>7 DEF SessionInv

(* A block of the send queue that is not written to a dead socket.         *)
LEMMA SendPopSession ==
  ASSUME IdInv, SessionInv, sendq # <<>>, sendq' = Tail(sendq),
         UNCHANGED <<fds, sess, recvq, alive>>,
         NEW b, b = Head(sendq),
         \/ (~Deliverable(b) \/ b.type = "DATA") /\ closeq' = closeq
         \/ Deliverable(b) /\ b.type = "FIN" /\ closeq' = closeq \cup {b.fd}
  PROVE  SessionInv'
<1> SUFFICES ASSUME alive, alive' PROVE SessionInv'
  BY DEF SessionInv
<1>1. Range(sendq) = {b} \cup Range(sendq')
  BY IdFacts, RangeTail
<1>2. b.fd \in Fds
  BY <1>1, IdFacts
<1>3. OrderInv' /\ OpenInv' /\ SessionsEnd'
  BY DEF SessionInv, OrderInv, OpenInv, SessionsEnd
<1>4. \A fd, id : Ended(fd, id) => Ended(fd, id)'
  BY DEF Ended
<1>5. FinInv'
  <2>1. \A x \in Range(sendq') : x.type = "FIN" => Ended(x.fd, x.id)
    BY <1>1 DEF SessionInv, FinInv
  <2>2. \A fd \in closeq' : fds[fd].type = "remote" /\ Ended(fd, fds[fd].id)
    BY <1>1 DEF SessionInv, FinInv, Deliverable
  <2>3. ASSUME NEW x \in Range(sendq'), x.type = "FIN"
        PROVE  Ended(x.fd, x.id)'
    BY <2>1, <2>3, <1>4
  <2>4. ASSUME NEW fd \in closeq'
        PROVE  fds'[fd].type = "remote" /\ Ended(fd, fds[fd].id)'
    BY <2>2, <2>4, <1>4
  <2> QED
    BY <2>3, <2>4 DEF FinInv
<1>6. ConnectionsAreServed'
  <2> SUFFICES ASSUME NEW fd \in Fds, fds[fd].type = "remote",
                      InQueue(sendq, "FIN", fd, fds[fd].id)
               PROVE  InQueue(sendq', "FIN", fd, fds[fd].id) \/ fd \in closeq'
    BY DEF SessionInv, ConnectionsAreServed
  <2>1. PICK x \in Range(sendq) :
          x.type = "FIN" /\ x.fd = fd /\ x.id = fds[fd].id
    BY DEF InQueue
  <2>2. CASE x \in Range(sendq')
    BY <2>1, <2>2 DEF InQueue
  <2>3. CASE x = b
    BY <2>1, <2>3 DEF Deliverable
  <2> QED
    BY <1>1, <2>1, <2>2, <2>3
<1> QED
  BY <1>3, <1>5, <1>6 DEF SessionInv

(* schedule_output (net.c:422-446) *)
LEMMA SendQueueSession ==
  IdInv /\ SessionInv /\ HasRoom /\ SendQueue => SessionInv'
<1> SUFFICES ASSUME IdInv, SessionInv, HasRoom, SendQueue, alive PROVE SessionInv'
  BY DEF SessionInv, SendQueue, cvars
<1> DEFINE b == Head(sendq)
<1>1. sendq # <<>> /\ sendq' = Tail(sendq) /\ UNCHANGED <<sess, alive>>
  BY DEF SendQueue, cvars
<1>2. Range(sendq) = {b} \cup Range(sendq') /\ b.fd \in Fds
  BY <1>1, IdFacts, RangeTail, HeadTyped
<1>3. CASE Deliverable(b) /\ b.type = "DATA" /\ DelTelling(b.fd)
  <2>1. fds[b.fd].type = "remote"
    BY <1>3 DEF Deliverable
  <2>2. /\ \A x \in Range(sendq') : x \in Range(sendq)
        /\ \A x \in Range(sendq) : x.type = "FIN" => x \in Range(sendq')
    BY <1>2, <1>3
  <2> HIDE DEF b
  <2> QED
    BY <1>1, <1>2, <1>3, <2>1, <2>2, DelSession
<1>4. CASE /\ UNCHANGED <<fds, recvq>>
           /\ \/ (~Deliverable(b) \/ b.type = "DATA") /\ closeq' = closeq
              \/ Deliverable(b) /\ b.type = "FIN" /\ closeq' = closeq \cup {b.fd}
  BY <1>1, <1>4, SendPopSession
<1> QED
  BY <1>3, <1>4 DEF SendQueue, CloseLater, ptable

(* An event of a connection (net.c:521-599) *)
LEMMA HandleConnSession ==
  \A fd \in Fds : IdInv /\ SessionInv /\ HasRoom /\ HandleConn(fd) => SessionInv'
<1> SUFFICES ASSUME NEW fd \in Fds, IdInv, SessionInv, HasRoom, HandleConn(fd)
             PROVE  SessionInv'
  OBVIOUS
<1>1. UNCHANGED <<alive, sess, sendq>>
  BY DEF HandleConn, cvars
<1>2. CASE ReadEof(fd)
  BY <1>1, <1>2, DelSession DEF ReadEof
<1>3. CASE SkipEvent(fd) \/ ReadPackets(fd) \/ ReadNothing(fd)
  <2>1. UNCHANGED <<fds, closeq, recvq>>
    BY <1>3 DEF SkipEvent, ReadPackets, ReadNothing, ptable
  <2> QED
    BY <1>1, <2>1, SessionKept
<1> QED
  BY <1>2, <1>3 DEF HandleConn

(* The reaping of idle connections (net.c:602-611) *)
LEMMA ReapSession == IdInv /\ SessionInv /\ HasRoom /\ Reap => SessionInv'
<1> SUFFICES ASSUME IdInv, SessionInv, HasRoom, Reap PROVE SessionInv'
  OBVIOUS
<1>1. UNCHANGED <<alive, sess, sendq>>
  BY DEF Reap, cvars
<1>2. CASE \E fd \in Fds \ Free : DelTelling(fd)
  <2>1. PICK fd \in Fds \ Free : DelTelling(fd)
    BY <1>2
  <2>2. fds[fd].type = "remote"
    BY <2>1 DEF Free, IdInv, TableInv
  <2> QED
    BY <1>1, <2>1, <2>2, DelSession
<1>3. CASE UNCHANGED <<fds, closeq, recvq>>
  BY <1>1, <1>3, SessionKept
<1> QED
  BY <1>2, <1>3 DEF Reap, ptable

(* The rest of net_recv (net.c:342-405) *)
LEMMA ParsePacketSession ==
  IdInv /\ SessionInv /\ ParsePacket => SessionInv'
<1> SUFFICES ASSUME IdInv, SessionInv, ParsePacket PROVE SessionInv'
  OBVIOUS
<1>1. /\ cur \in Fds /\ fds[cur].type = "remote" /\ UNCHANGED <<alive, sess, sendq>>
  BY DEF ParsePacket, IdInv, TableInv, cvars
<1> DEFINE n == fds[cur].id
           b == Block("DATA", cur, n, n)
<1>2. CASE recvq' = Append(recvq, b) /\ UNCHANGED <<fds, closeq>>
  <2> SUFFICES ASSUME alive, alive' PROVE SessionInv'
    BY <1>1 DEF SessionInv
  <2>1. b \in Blocks /\ b.type = "DATA" /\ b.fd = cur /\ b.id = n
    BY <1>1, IdFacts DEF Block, Blocks
  <2>2. Range(recvq') = Range(recvq) \cup {b}
    BY <1>2, <2>1, IdFacts, RangeAppend
  <2> HIDE DEF b
  <2>3. \A t \in {"OPEN", "CLOSE"} : \A fd, id :
          InQueue(recvq', t, fd, id) <=> InQueue(recvq, t, fd, id)
    BY <2>1, <2>2 DEF InQueue
  <2>4. OrderInv'
    <3>1. \A a \in Range(recvq) : a.fd = cur /\ a.type = "CLOSE" => a.id < n
      BY <1>1, IdFacts DEF SessionInv, OrderInv
    <3>2. Ordered(recvq')
      BY <1>2, <2>1, <3>1, IdFacts, OrderedAppend DEF SessionInv, OrderInv
    <3> QED
      BY <1>1, <1>2, <2>1, <2>2, <3>2 DEF SessionInv, OrderInv
  <2>5. OpenInv'
    BY <1>2, <2>1, <2>2, <2>3 DEF SessionInv, OpenInv
  <2>6. FinInv'
    BY <1>1, <1>2, <2>3 DEF SessionInv, FinInv, Ended
  <2>7. SessionsEnd' /\ ConnectionsAreServed'
    BY <1>1, <1>2, <2>3 DEF SessionInv, SessionsEnd, ConnectionsAreServed
  <2> QED
    BY <2>4, <2>5, <2>6, <2>7 DEF SessionInv
<1>3. CASE UNCHANGED <<fds, closeq, recvq>>
  BY <1>1, <1>3, SessionKept
<1> QED
  BY <1>2, <1>3 DEF ParsePacket, ptable

(* do_del_conn after net_recv (net.c:580-582) *)
LEMMA GiveUpSession == IdInv /\ SessionInv /\ HasRoom /\ GiveUp => SessionInv'
<1> SUFFICES ASSUME IdInv, SessionInv, HasRoom, GiveUp PROVE SessionInv'
  OBVIOUS
<1>1. /\ cur \in Fds /\ fds[cur].type = "remote" /\ DelTelling(cur)
      /\ UNCHANGED <<alive, sess, sendq>>
  BY DEF GiveUp, IdInv, TableInv, cvars
<1> QED
  BY <1>1, DelSession

(* do_open_conn (net.c:246-272): the new id is larger than all others. *)
LEMMA AcceptSession == IdInv /\ SessionInv /\ HasRoom /\ Accept => SessionInv'
<1> SUFFICES ASSUME IdInv, SessionInv, HasRoom, Accept, alive, alive'
             PROVE  SessionInv'
  BY DEF SessionInv, Accept, cvars
<1> DEFINE f == CHOOSE x \in Free : \A other \in Free : x <= other
           n == seq + 1
           b == Block("OPEN", f, n, 0)
<1>1. f \in Fds /\ fds[f].type = "unused"
  BY LeastFd DEF Accept, Free
<1>2. /\ UNCHANGED <<closeq, sess, sendq>> /\ recvq' = Append(recvq, b)
      /\ fds' = [fds EXCEPT ![f] = [type |-> "remote", id |-> n]]
  BY DEF Accept, AddConn, Pushed, HasRoom, cvars
<1>3. b \in Blocks /\ b.type = "OPEN" /\ b.fd = f /\ b.id = n
  BY <1>1, IdFacts DEF Block, Blocks
<1>4. Range(recvq') = Range(recvq) \cup {b}
  BY <1>2, <1>3, IdFacts, RangeAppend
<1> HIDE DEF f, b
<1>5. /\ fds'[f] = [type |-> "remote", id |-> n]
      /\ \A fd \in Fds : fd # f => fds'[fd] = fds[fd]
      /\ \A fd \in Fds : fds[fd].id < n
  BY <1>1, <1>2, IdFacts
<1>6. /\ \A t, fd, id : InQueue(recvq, t, fd, id) => InQueue(recvq', t, fd, id)
      /\ \A fd, id : InQueue(recvq', "OPEN", fd, id) =>
           InQueue(recvq, "OPEN", fd, id) \/ (fd = f /\ id = n)
      /\ InQueue(recvq', "OPEN", f, n)
  BY <1>3, <1>4 DEF InQueue
<1>7. OrderInv'
  <2>1. \A a \in Range(recvq) : a.fd = f => a.id < n
    BY <1>1, <1>5, IdFacts
  <2>2. Ordered(recvq')
    BY <1>2, <1>3, <2>1, IdFacts, OrderedAppend DEF SessionInv, OrderInv
  <2>3. sess[f] < n
    BY <1>1, <1>5, IdFacts
  <2> QED
    BY <1>2, <1>3, <1>4, <1>5, <2>1, <2>2, <2>3, IdFacts DEF SessionInv, OrderInv
<1>8. OpenInv'
  <2> SUFFICES ASSUME NEW x \in Range(recvq'), x.type = "OPEN"
               PROVE  \/ fds'[x.fd] = [type |-> "remote", id |-> x.id]
                      \/ InQueue(recvq', "CLOSE", x.fd, x.id)
    BY DEF OpenInv
  <2>1. CASE x = b
    BY <1>3, <1>5, <2>1
  <2>2. CASE x \in Range(recvq)
    <3>1. /\ x.fd \in Fds
          /\ \/ fds[x.fd] = [type |-> "remote", id |-> x.id]
             \/ InQueue(recvq, "CLOSE", x.fd, x.id)
      BY <2>2, IdFacts DEF SessionInv, OpenInv
    <3> QED
      BY <1>1, <1>5, <1>6, <3>1
  <2> QED
    BY <1>4, <2>1, <2>2
<1>9. FinInv'
  <2>1. \A fd \in closeq : fd \in Fds /\ fd # f
    BY <1>1, IdFacts DEF SessionInv, FinInv
  <2>2. \A x \in Range(sendq) : x.fd = f => x.id # n
    BY <1>1, <1>5, IdFacts
  <2> QED
    BY <1>2, <1>5, <1>6, <2>1, <2>2 DEF SessionInv, FinInv, Ended
<1>10. SessionsEnd'
  BY <1>1, <1>2, <1>5, <1>6 DEF SessionInv, SessionsEnd
<1>11. ConnectionsAreServed'
  BY <1>2, <1>5, <1>6 DEF SessionInv, ConnectionsAreServed
<1> QED
  BY <1>7, <1>8, <1>9, <1>10, <1>11 DEF SessionInv

(* handle_pipe_event (net.c:620-640): the successor of a dead worker has   *)
(* no session, and the parent no connection.                               *)
LEMMA HandleHangupSession == IdInv /\ HandleHangup => SessionInv'
<1> SUFFICES ASSUME IdInv, HandleHangup, alive' PROVE SessionInv'
  BY DEF SessionInv
<1>1. ~alive /\ Del(Fds)
  BY DEF HandleHangup, IdInv, TableInv
<1>2. RestartChild
  BY <1>1 DEF HandleHangup, cvars
<1>3. /\ recvq' = <<>> /\ sendq' = <<>> /\ sess' = [fd \in Fds |-> 0]
      /\ closeq' = {} /\ \A fd \in Fds : fds'[fd].type = "unused"
  BY <1>1, <1>2, DelStep DEF RestartChild, FreshWorker, Del, IdInv, TableInv
<1>4. Range(recvq') = {} /\ Range(sendq') = {}
  BY <1>3 DEF Range
<1> QED
  BY <1>3, <1>4 DEF SessionInv, OrderInv, Ordered, OpenInv, FinInv, SessionsEnd,
                    ConnectionsAreServed

(* What a pop of the worker leaves in the queue. *)
LEMMA PopFacts ==
  ASSUME IdInv, SessionInv, alive, recvq # <<>>, recvq' = Tail(recvq),
         NEW h, h = Head(recvq)
  PROVE  /\ Range(recvq) = {h} \cup Range(recvq') /\ Ordered(recvq')
         /\ h.fd \in Fds /\ h.id \in Nat /\ h \in Range(recvq)
         /\ \A a \in Range(recvq') :
              a.fd = h.fd /\ (a.type = "OPEN" \/ h.type = "CLOSE") => h.id < a.id
         /\ \A t, fd, id :
              /\ InQueue(recvq', t, fd, id) => InQueue(recvq, t, fd, id)
              /\ InQueue(recvq, t, fd, id)
                   => \/ InQueue(recvq', t, fd, id)
                      \/ h.type = t /\ h.fd = fd /\ h.id = id
<1>1. recvq \in Seq(Blocks) /\ Ordered(recvq)
  BY IdFacts DEF SessionInv, OrderInv
<1>2. Range(recvq) = {h} \cup Range(recvq')
  BY <1>1, RangeTail
<1> QED
  BY <1>1, <1>2, OrderedTail, HeadTyped DEF InQueue

(* handle_open (service.c:62-77): there is no session in the way. *)
LEMMA PopOpenSession == IdInv /\ SessionInv /\ PopOpen => SessionInv'
<1> SUFFICES ASSUME IdInv, SessionInv, PopOpen PROVE SessionInv'
  OBVIOUS
<1> DEFINE h == Head(recvq)
<1>1. /\ alive /\ recvq # <<>> /\ recvq' = Tail(recvq) /\ h.type = "OPEN"
      /\ UNCHANGED <<pvars, alive, hup>>
  BY DEF PopOpen, evars
<1>2. UNCHANGED <<fds, closeq>>
  BY <1>1, WorkerTable
<1>3. sess[h.fd] = 0
  BY <1>1, HeadMeetsSession DEF BlocksMeetTheirSession
<1>4. sess' = [sess EXCEPT ![h.fd] = h.id] /\ sendq' = sendq
  BY <1>3 DEF PopOpen
<1> HIDE DEF h
<1>5. /\ Range(recvq) = {h} \cup Range(recvq') /\ Ordered(recvq')
      /\ h.fd \in Fds /\ h.id \in Nat /\ h \in Range(recvq)
      /\ \A a \in Range(recvq') : a.fd = h.fd /\ a.type = "OPEN" => h.id < a.id
      /\ \A t, fd, id : InQueue(recvq', t, fd, id) => InQueue(recvq, t, fd, id)
      /\ \A fd, id : InQueue(recvq, "CLOSE", fd, id) => InQueue(recvq', "CLOSE", fd, id)
      /\ \A fd, id : InQueue(recvq, "OPEN", fd, id) =>
           InQueue(recvq', "OPEN", fd, id) \/ (h.fd = fd /\ h.id = id)
  BY <1>1, PopFacts DEF h
<1>6. /\ sess'[h.fd] = h.id /\ \A fd \in Fds : fd # h.fd => sess'[fd] = sess[fd]
      /\ h.id > 0
  BY <1>1, <1>3, <1>4, <1>5, IdFacts DEF SessionInv, OrderInv
<1>7. InQueue(recvq, "OPEN", h.fd, h.id)
  BY <1>1, <1>5 DEF InQueue
<1>8. OrderInv'
  BY <1>1, <1>2, <1>5, <1>6, IdFacts DEF SessionInv, OrderInv
<1>9. OpenInv'
  BY <1>1, <1>2, <1>5 DEF SessionInv, OpenInv
<1>10. FinInv'
  <2>1. \A fd \in Fds : \A id : Ended(fd, id) => Ended(fd, id)'
    BY <1>5, <1>6, <1>7 DEF Ended
  <2>2. ASSUME NEW x \in Range(sendq'), x.type = "FIN"
        PROVE  Ended(x.fd, x.id)'
    BY <1>4, <2>1, <2>2, IdFacts, <1>1 DEF SessionInv, FinInv
  <2>3. ASSUME NEW fd \in closeq'
        PROVE  fds'[fd].type = "remote" /\ Ended(fd, fds[fd].id)'
    BY <1>1, <1>2, <2>1, <2>3, IdFacts DEF SessionInv, FinInv
  <2> QED
    BY <2>2, <2>3 DEF FinInv
<1>11. SessionsEnd'
  <2>1. \/ fds[h.fd] = [type |-> "remote", id |-> h.id]
        \/ InQueue(recvq, "CLOSE", h.fd, h.id)
    BY <1>1, <1>5 DEF SessionInv, OpenInv
  <2> QED
    BY <1>1, <1>2, <1>5, <1>6, <2>1 DEF SessionInv, SessionsEnd
<1>12. ConnectionsAreServed'
  <2>1. sess[h.fd] # fds[h.fd].id
    BY <1>1, <1>3, <1>5, <1>6, IdFacts
  <2> QED
    BY <1>1, <1>2, <1>4, <1>5, <1>6, <2>1 DEF SessionInv, ConnectionsAreServed
<1> QED
  BY <1>8, <1>9, <1>10, <1>11, <1>12 DEF SessionInv

(* handle_process (service.c:91-99): no session begins or ends. *)
LEMMA PopDataSession == IdInv /\ SessionInv /\ PopData => SessionInv'
<1> SUFFICES ASSUME IdInv, SessionInv, PopData PROVE SessionInv'
  OBVIOUS
<1> DEFINE h == Head(recvq)
           a == Block("DATA", h.fd, sess[h.fd], h.src)
<1>1. /\ alive /\ recvq # <<>> /\ recvq' = Tail(recvq) /\ h.type = "DATA"
      /\ UNCHANGED <<pvars, alive, hup, sess>>
  BY DEF PopData, evars
<1>2. UNCHANGED <<fds, closeq>>
  BY <1>1, WorkerTable
<1>3. /\ Range(recvq) = {h} \cup Range(recvq') /\ Ordered(recvq')
      /\ h.fd \in Fds /\ h \in Blocks
      /\ \A t, fd, id : InQueue(recvq', t, fd, id) => InQueue(recvq, t, fd, id)
      /\ \A t \in {"OPEN", "CLOSE"} : \A fd, id :
           InQueue(recvq, t, fd, id) => InQueue(recvq', t, fd, id)
  BY <1>1, PopFacts, IdFacts
<1>4. a \in Blocks /\ a.type = "DATA"
  BY <1>1, <1>3, IdFacts, HeadTyped DEF Block, Blocks
<1>5. sendq' = sendq \/ sendq' = Append(sendq, a)
  BY DEF PopData, Pushed
<1> HIDE DEF h, a
<1>6. /\ \A x \in Range(sendq') : x.type = "FIN" => x \in Range(sendq)
      /\ \A x \in Range(sendq) : x \in Range(sendq')
  <2>1. CASE sendq' = sendq
    BY <2>1
  <2>2. CASE sendq' = Append(sendq, a)
    <3>1. Range(sendq') = Range(sendq) \cup {a}
      BY <1>1, <1>4, <2>2, IdFacts, RangeAppend
    <3> QED
      BY <1>4, <3>1
  <2> QED
    BY <1>5, <2>1, <2>2
<1>7. \A fd, id : InQueue(sendq, "FIN", fd, id) => InQueue(sendq', "FIN", fd, id)
  BY <1>6 DEF InQueue
<1>8. OrderInv' /\ OpenInv'
  BY <1>1, <1>2, <1>3 DEF SessionInv, OrderInv, OpenInv
<1>9. FinInv'
  BY <1>1, <1>2, <1>3, <1>6 DEF SessionInv, FinInv, Ended
<1>10. SessionsEnd' /\ ConnectionsAreServed'
  BY <1>1, <1>2, <1>3, <1>7 DEF SessionInv, SessionsEnd, ConnectionsAreServed
<1> QED
  BY <1>8, <1>9, <1>10 DEF SessionInv

(* handle_close (service.c:79-89): the connection is gone in the parent, *)
(* and no later block of its descriptor belongs to it.                     *)
LEMMA PopCloseSession == IdInv /\ SessionInv /\ PopClose => SessionInv'
<1> SUFFICES ASSUME IdInv, SessionInv, PopClose PROVE SessionInv'
  OBVIOUS
<1> DEFINE h == Head(recvq)
<1>1. /\ alive /\ recvq # <<>> /\ recvq' = Tail(recvq) /\ h.type = "CLOSE"
      /\ UNCHANGED <<pvars, alive, hup>> /\ sendq' = sendq
      /\ sess' = [sess EXCEPT ![h.fd] = 0]
  BY DEF PopClose, HandleClose, evars
<1>2. UNCHANGED <<fds, closeq>>
  BY <1>1, WorkerTable
<1>3. /\ Range(recvq) = {h} \cup Range(recvq') /\ Ordered(recvq')
      /\ h.fd \in Fds /\ h.id \in Nat /\ h \in Range(recvq)
      /\ \A b \in Range(recvq') : b.fd = h.fd => h.id < b.id
      /\ \A t, fd, id : InQueue(recvq', t, fd, id) => InQueue(recvq, t, fd, id)
      /\ \A fd, id : InQueue(recvq, "OPEN", fd, id) => InQueue(recvq', "OPEN", fd, id)
      /\ \A fd, id : InQueue(recvq, "CLOSE", fd, id) =>
           InQueue(recvq', "CLOSE", fd, id) \/ (h.fd = fd /\ h.id = id)
  BY <1>1, PopFacts
<1> HIDE DEF h
<1>4. sess'[h.fd] = 0 /\ \A fd \in Fds : fd # h.fd => sess'[fd] = sess[fd]
  BY <1>1, <1>3, IdFacts
<1>5. OrderInv'
  BY <1>1, <1>2, <1>3, <1>4, IdFacts DEF SessionInv, OrderInv
<1>6. OpenInv'
  <2> SUFFICES ASSUME NEW b \in Range(recvq'), b.type = "OPEN",
                      InQueue(recvq, "CLOSE", b.fd, b.id)
               PROVE  InQueue(recvq', "CLOSE", b.fd, b.id)
    BY <1>1, <1>2, <1>3 DEF SessionInv, OpenInv
  <2>1. b.id \in Nat /\ ~(h.fd = b.fd /\ h.id = b.id)
    BY <1>1, <1>3, IdFacts
  <2> QED
    BY <1>3, <2>1
<1>7. FinInv'
  <2>1. \A fd \in Fds, id \in Nat : Ended(fd, id) => Ended(fd, id)'
    BY <1>3, <1>4 DEF Ended
  <2>2. ASSUME NEW x \in Range(sendq'), x.type = "FIN"
        PROVE  Ended(x.fd, x.id)'
    BY <1>1, <2>1, <2>2, IdFacts DEF SessionInv, FinInv
  <2>3. ASSUME NEW fd \in closeq'
        PROVE  fds'[fd].type = "remote" /\ Ended(fd, fds[fd].id)'
    BY <1>1, <1>2, <2>1, <2>3, IdFacts DEF SessionInv, FinInv
  <2> QED
    BY <2>2, <2>3 DEF FinInv
<1>8. SessionsEnd'
  BY <1>1, <1>2, <1>3, <1>4 DEF SessionInv, SessionsEnd
<1>9. ConnectionsAreServed'
  <2>1. fds[h.fd].type = "remote" => sess[h.fd] # fds[h.fd].id
    <3>1. h.id = fds[h.fd].id => fds[h.fd].type = "unused"
      BY <1>1, <1>3 DEF SessionInv, OrderInv
    <3> QED
      BY <1>1, <1>3, <3>1, IdFacts
  <2> QED
    BY <1>1, <1>2, <1>3, <1>4, <2>1 DEF SessionInv, ConnectionsAreServed
<1> QED
  BY <1>5, <1>6, <1>7, <1>8, <1>9 DEF SessionInv

(* close_client_conn (net_if.c:208-224): the FIN_BLOCK stands in for the   *)
(* session.                                                                *)
LEMMA CloseClientConnSession ==
  \A fd \in Fds : IdInv /\ SessionInv /\ HasRoom /\ CloseClientConn(fd) => SessionInv'
<1> SUFFICES ASSUME NEW f \in Fds, IdInv, SessionInv, HasRoom, CloseClientConn(f)
             PROVE  SessionInv'
  OBVIOUS
<1> DEFINE y == sess[f]
           b == Block("FIN", f, y, 0)
<1>1. /\ alive /\ recvq' = recvq /\ UNCHANGED <<pvars, alive, hup>>
      /\ sess' = [sess EXCEPT ![f] = 0] /\ sendq' = Append(sendq, b) /\ y # 0
  BY DEF CloseClientConn, HandleClose, HasRoom, Pushed, evars
<1>2. UNCHANGED <<fds, closeq>>
  BY <1>1, WorkerTable
<1>3. /\ sess'[f] = 0 /\ \A fd \in Fds : fd # f => sess'[fd] = sess[fd]
      /\ y \in Nat /\ y > 0
  BY <1>1, IdFacts
<1>4. b \in Blocks /\ b.type = "FIN" /\ b.fd = f /\ b.id = y
  BY <1>3 DEF Block, Blocks
<1>5. Range(sendq') = Range(sendq) \cup {b}
  BY <1>1, <1>4, IdFacts, RangeAppend
<1> HIDE DEF b
<1>6. /\ InQueue(sendq', "FIN", f, y)
      /\ \A fd, id : InQueue(sendq, "FIN", fd, id) => InQueue(sendq', "FIN", fd, id)
  BY <1>4, <1>5 DEF InQueue
<1>7. OrderInv'
  BY <1>1, <1>2, <1>3, IdFacts DEF SessionInv, OrderInv
<1>8. OpenInv'
  BY <1>1, <1>2 DEF SessionInv, OpenInv
<1>9. FinInv'
  <2>1. \A fd \in Fds, id \in Nat : Ended(fd, id) => Ended(fd, id)'
    BY <1>1, <1>3 DEF Ended
  <2>2. ASSUME NEW x \in Range(sendq'), x.type = "FIN"
        PROVE  Ended(x.fd, x.id)'
    <3>1. CASE x \in Range(sendq)
      BY <1>1, <2>1, <2>2, <3>1, IdFacts DEF SessionInv, FinInv
    <3>2. CASE x = b
      <4>1. ~InQueue(recvq, "OPEN", f, y)
        BY <1>1, <1>3 DEF SessionInv, OrderInv, InQueue
      <4>2. x.fd = f /\ x.id > 0 /\ ~InQueue(recvq, "OPEN", x.fd, x.id)
        BY <1>3, <1>4, <3>2, <4>1
      <4> QED
        BY <1>1, <1>3, <4>2 DEF Ended
    <3> QED
      BY <1>5, <3>1, <3>2
  <2>3. ASSUME NEW fd \in closeq'
        PROVE  fds'[fd].type = "remote" /\ Ended(fd, fds[fd].id)'
    BY <1>1, <1>2, <2>1, <2>3, IdFacts DEF SessionInv, FinInv
  <2> QED
    BY <2>2, <2>3 DEF FinInv
<1>10. SessionsEnd'
  BY <1>1, <1>2, <1>3 DEF SessionInv, SessionsEnd
<1>11. ConnectionsAreServed'
  BY <1>1, <1>2, <1>3, <1>6 DEF SessionInv, ConnectionsAreServed
<1> QED
  BY <1>1, <1>7, <1>8, <1>9, <1>10, <1>11 DEF SessionInv

LEMMA SessionInit == Init => SessionInv
<1> SUFFICES ASSUME Init PROVE SessionInv
  OBVIOUS
<1>1. /\ recvq = <<>> /\ sendq = <<>> /\ sess = [fd \in Fds |-> 0] /\ closeq = {}
      /\ \A fd \in Fds : fds[fd].type = "unused"
  BY DEF Init
<1>2. Range(recvq) = {} /\ Range(sendq) = {}
  BY <1>1 DEF Range
<1> QED
  BY <1>1, <1>2 DEF SessionInv, OrderInv, Ordered, OpenInv, FinInv, SessionsEnd,
                    ConnectionsAreServed

LEMMA SessionStep == IdInv /\ SessionInv /\ HasRoom /\ [Next]_vars => SessionInv'
<1> SUFFICES ASSUME IdInv, SessionInv, HasRoom, [Next]_vars PROVE SessionInv'
  OBVIOUS
<1>1. CASE \/ Environment \/ EpollWait \/ SendQueueEmpty \/ HandleListen
           \/ AcceptEnds \/ AcceptFails \/ BatchDone \/ UNCHANGED vars
  <2>1. UNCHANGED <<fds, closeq, sess, recvq, sendq>>
    BY <1>1 DEF Environment, Connect, ClientSend, ClientClose, ClientReset,
         WorkerCrash, EpollWait, SendQueueEmpty, HandleListen, AcceptEnds,
         AcceptFails, BatchDone, vars, pvars, ptable, cvars
  <2>2. alive' = alive \/ alive' = FALSE
    BY <1>1 DEF Environment, Connect, ClientSend, ClientClose, ClientReset,
         WorkerCrash, EpollWait, SendQueueEmpty, HandleListen, AcceptEnds,
         AcceptFails, BatchDone, vars, cvars
  <2> QED
    BY <2>1, <2>2, SessionKept
<1>2. CASE Parent
  BY <1>1, <1>2, IterateCloseSession, SendQueueSession, ParsePacketSession,
     GiveUpSession, AcceptSession, HandleHangupSession, ReapSession, HandleConnSession DEF Parent
<1>3. CASE Worker
  BY <1>3, PopOpenSession, PopDataSession, PopCloseSession, CloseClientConnSession
     DEF Worker
<1> QED
  BY <1>1, <1>2, <1>3 DEF Next

LEMMA SessionInvariant == Spec /\ []HasRoom => [](IdInv /\ SessionInv)
  BY IdInit, IdStep, SessionInit, SessionStep, PTL DEF Spec

(* "parent informs child that a connection had been closed" (shmq.h:33):   *)
(* as long as no push fails, no session of the worker outlives its         *)
(* connection by more than the CLOSE_BLOCK that is on its way.             *)
THEOREM SessionsEndThm == Spec /\ []HasRoom => []SessionsEnd
<1>1. IdInv /\ SessionInv => SessionsEnd
  BY DEF SessionInv, SessionsEnd
<1> QED
  BY <1>1, SessionInvariant, PTL

(* "child informs parent to close a connection" (shmq.h:31): as long as no *)
(* push fails, no connection of the parent is without a session, unless    *)
(* its OPEN_BLOCK or FIN_BLOCK is on its way or it is in the close queue.  *)
THEOREM ConnectionsAreServedThm == Spec /\ []HasRoom => []ConnectionsAreServed
<1>1. IdInv /\ SessionInv => ConnectionsAreServed
  BY DEF SessionInv, ConnectionsAreServed
<1> QED
  BY <1>1, SessionInvariant, PTL

(* handle_open and handle_process, which look a session up by descriptor   *)
(* (service.c:64, 93), find none or the one of their block's connection.   *)
THEOREM BlocksMeetTheirSessionThm == Spec /\ []HasRoom => []BlocksMeetTheirSession
  BY HeadMeetsSession, SessionInvariant, PTL
=============================================================================
