--------------------------- MODULE ShmQueueProofs ---------------------------
(* Proofs about the shared-memory queue, for every size of the mapping, of *)
(* the page and of the headers.                                            *)
EXTENDS ShmQueue, SequenceTheorems, TLAPS

USE SizeAssumption, LensAssumption, GarbledAssumption
    DEF SizeAssumption, LensAssumption, GarbledAssumption

(* What a store to the ring changes: the block at p, and no block whose    *)
(* bytes it does not overlap (Store stands for the memcpy and the pad      *)
(* stores of shmq.c and the in-place rewrite of service.c).                *)
LEMMA StoreProperties ==
  ASSUME mem \in [Offsets -> Block],
         NEW p \in Offsets, NEW n \in Nat, n > 0, NEW blk \in Block
  PROVE  /\ Store(p, n, blk) \in [Offsets -> Block]
         /\ Store(p, n, blk)[p] = blk
         /\ \A q \in Offsets : p + n <= q => Store(p, n, blk)[q] = mem[q]
         /\ \A q \in Offsets : q + BlkSize <= p /\ q + mem[q].length <= p
                                 => Store(p, n, blk)[q] = mem[q]
<1>1. Junk \in Block
  BY DEF Junk, Block, Data
<1>2. ASSUME NEW q \in Offsets
      PROVE  /\ mem[q] \in Block
             /\ [mem[q] EXCEPT !.data = Garbled] \in Block
             /\ mem[q].length \in Nat
  BY DEF Block, Data
<1>3. \A q \in Offsets : Store(p, n, blk)[q] \in Block
  BY <1>1, <1>2 DEF Store
<1>4. Store(p, n, blk) \in [Offsets -> Block]
  BY <1>3 DEF Store
<1>5. Store(p, n, blk)[p] = blk
  BY DEF Store
<1>6. ASSUME NEW q \in Offsets, p + n <= q
      PROVE  Store(p, n, blk)[q] = mem[q]
  BY <1>2, <1>6 DEF Store, Offsets
<1>7. ASSUME NEW q \in Offsets, q + BlkSize <= p, q + mem[q].length <= p
      PROVE  Store(p, n, blk)[q] = mem[q]
  <2>1. q \in Int /\ p \in Int
    BY DEF Offsets
  <2>a. mem[q].length \in Nat
    BY <1>2
  <2>2. q # p /\ ~(q + BlkSize > p) /\ ~(q + mem[q].length > p)
    BY <1>7, <2>1, <2>a
  <2>3. QED
    BY <2>2 DEF Store
<1>8. QED
  BY <1>4, <1>5, <1>6, <1>7

(* The empty queue that do_shmq_create makes satisfies the invariant.      *)
LEMMA InitIInv == Init => IInv
<1> SUFFICES ASSUME Init PROVE IInv
  OBVIOUS
<1>1. Len(pending) = 0 /\ pending \in Seq(Entry)
  BY DEF Init
<1>2. TypeOK
  BY <1>1 DEF Init, TypeOK, Junk, Block, Data, Offsets
<1>3. OffsetInv /\ RunInv /\ ChainInv
  BY <1>1 DEF Init, OffsetInv, RunInv, ChainInv, Succ, End
<1>4. ProducerInv /\ ConsumerInv
  BY DEF Init, ProducerInv, ConsumerInv
<1>5. QED
  BY <1>2, <1>3, <1>4 DEF IInv

(***************************************************************************)
(* The steps that leave the ring itself (head, tail, mem, pending, seam)   *)
(* as it is.                                                               *)
(***************************************************************************)
ringvars == <<head, tail, mem, pending, seam>>

(* What the invariant says of the ring survives a step of shmq_push or     *)
(* shmq_pop that only moves its own program counter.                       *)
LEMMA RingUnchanged ==
  ASSUME OffsetInv, RunInv, ChainInv, UNCHANGED ringvars
  PROVE  OffsetInv' /\ RunInv' /\ ChainInv'
BY DEF ringvars, OffsetInv, RunInv, ChainInv, Succ, End

(* The call of shmq_push preserves the invariant: a block longer than      *)
(* page_size is refused before it is looked at.                            *)
LEMMA PushStep ==
  ASSUME IInv, NEW len \in Lens, NEW d \in Payload, Push(len, d)
  PROVE  IInv'
<1> USE DEF IInv
<1>1. OffsetInv' /\ RunInv' /\ ChainInv'
  BY RingUnchanged DEF Push, ringvars
<1>2. TypeOK'
  BY DEF TypeOK, Push, pvars, cvars, Block, Data
<1>3. ProducerInv'
  BY DEF ProducerInv, Push, pvars, Surplus
<1>4. ConsumerInv'
  BY DEF ConsumerInv, Push, cvars
<1>5. QED
  BY <1>1, <1>2, <1>3, <1>4

(* The test of align_queue_head preserves the invariant: it goes on to the *)
(* pad only when the consumer is ahead of the start.                       *)
LEMMA AlignHeadStep ==
  ASSUME IInv, AlignHead
  PROVE  IInv'
<1> USE DEF IInv
<1>1. OffsetInv' /\ RunInv' /\ ChainInv'
  BY RingUnchanged DEF AlignHead, ringvars
<1>2. TypeOK'
  BY DEF TypeOK, AlignHead, cvars
<1>3. ProducerInv'
  <2>1. head \in Int /\ tail \in HeadSize .. Length /\ mb.length \in BlkSize .. PageSize
    BY DEF TypeOK, ProducerInv, AlignHead
  <2>2. seam # 0 => Surplus >= PageSize
    BY <2>1 DEF OffsetInv, Surplus, TypeOK
  <2>3. ppc' = "pad" => seam = 0 /\ HeadSize < tail /\ head + mb.length > Length
    BY <2>1, <2>2 DEF AlignHead, Surplus
  <2>4. ppc' = "room" => head + mb.length <= Length
    BY <2>1 DEF AlignHead, Surplus
  <2>5. ppc' \in {"room", "exited", "pad"}
    BY DEF AlignHead
  <2>6. QED
    BY <2>3, <2>4, <2>5 DEF ProducerInv, AlignHead
<1>4. ConsumerInv'
  BY DEF ConsumerInv, AlignHead, cvars
<1>5. QED
  BY <1>1, <1>2, <1>3, <1>4

(* The first read of tail in the loop that waits for room preserves the    *)
(* invariant: a producer that has not wrapped may copy.                    *)
LEMMA TestBehindStep ==
  ASSUME IInv, TestBehind
  PROVE  IInv'
<1> USE DEF IInv
<1>1. OffsetInv' /\ RunInv' /\ ChainInv'
  BY RingUnchanged DEF TestBehind, ringvars
<1>2. TypeOK'
  BY DEF TypeOK, TestBehind, cvars
<1>3. ProducerInv'
  BY DEF TypeOK, ProducerInv, TestBehind, Behind, Surplus
<1>4. ConsumerInv'
  BY DEF ConsumerInv, TestBehind, cvars
<1>5. QED
  BY <1>1, <1>2, <1>3, <1>4

(* The second read of tail preserves the invariant: the copy starts only   *)
(* with page_size bytes to spare before tail.                              *)
LEMMA TestRoomStep ==
  ASSUME IInv, TestRoom
  PROVE  IInv'
<1> USE DEF IInv
<1>1. OffsetInv' /\ RunInv' /\ ChainInv'
  BY RingUnchanged DEF TestRoom, ringvars
<1>2. TypeOK'
  BY DEF TypeOK, TestRoom, Return, Junk, Block, Data, cvars
<1>3. ProducerInv'
  BY DEF TypeOK, ProducerInv, TestRoom, Return, NoRoom, Surplus
<1>4. ConsumerInv'
  BY DEF ConsumerInv, TestRoom, cvars
<1>5. QED
  BY <1>1, <1>2, <1>3, <1>4

(* The call of shmq_pop preserves the invariant: the consumer gives up the *)
(* block it worked on.                                                     *)
LEMMA PopStep ==
  ASSUME IInv, Pop
  PROVE  IInv'
<1> USE DEF IInv
<1>1. OffsetInv' /\ RunInv' /\ ChainInv'
  BY RingUnchanged DEF Pop, ringvars
<1>2. TypeOK'
  BY DEF TypeOK, Pop, pvars
<1>3. ProducerInv'
  BY DEF ProducerInv, Pop, pvars, Surplus
<1>4. ConsumerInv'
  BY DEF ConsumerInv, Pop
<1>5. QED
  BY <1>1, <1>2, <1>3, <1>4

(* The test of align_queue_tail preserves the invariant: it looks for the  *)
(* wrap only when the producer has wrapped.                                *)
LEMMA AlignTailStep ==
  ASSUME IInv, AlignTail
  PROVE  IInv'
<1> USE DEF IInv
<1>1. OffsetInv' /\ RunInv' /\ ChainInv'
  BY RingUnchanged DEF AlignTail, ringvars
<1>2. TypeOK'
  BY DEF TypeOK, AlignTail, pvars
<1>3. ProducerInv'
  BY DEF ProducerInv, AlignTail, pvars, Surplus
<1>4. Len(pending) \in Nat
  BY DEF TypeOK
<1>5. ConsumerInv'
  BY <1>4 DEF TypeOK, OffsetInv, ChainInv, Succ, ConsumerInv, AlignTail
<1>6. QED
  BY <1>1, <1>2, <1>3, <1>5

(* The second test for an empty queue in shmq_pop preserves the invariant: *)
(* what it does not find empty has an unread block.                        *)
LEMMA CheckEmptyStep ==
  ASSUME IInv, CheckEmpty
  PROVE  IInv'
<1> USE DEF IInv
<1>1. OffsetInv' /\ RunInv' /\ ChainInv'
  BY RingUnchanged DEF CheckEmpty, ringvars
<1>2. TypeOK'
  BY DEF TypeOK, CheckEmpty, pvars
<1>3. ProducerInv'
  BY DEF ProducerInv, CheckEmpty, pvars, Surplus
<1>4. ConsumerInv'
  BY DEF ConsumerInv, CheckEmpty
<1>5. QED
  BY <1>1, <1>2, <1>3, <1>4

(* What RunInv says of one unread block, with its types. *)
LEMMA UnreadBlock ==
  ASSUME TypeOK, RunInv, NEW i \in 1 .. Len(pending)
  PROVE  /\ pending[i] \in Entry
         /\ pending[i].pos \in Offsets /\ pending[i].pos \in Int
         /\ pending[i].data \in Payload
         /\ pending[i].len \in BlkSize .. PageSize
         /\ mem[pending[i].pos].type = "BLOCK"
         /\ mem[pending[i].pos].length = pending[i].len
         /\ mem[pending[i].pos].data = pending[i].data
         /\ End(i) = pending[i].pos + pending[i].len /\ End(i) \in Int
         /\ \/ tail <= pending[i].pos /\ End(i) <= (IF seam = 0 THEN head ELSE seam)
            \/ seam # 0 /\ End(i) <= head
<1>1. pending[i] \in Entry
  BY DEF TypeOK
<1>2. pending[i].pos \in Offsets /\ pending[i].data \in Payload
  BY <1>1 DEF Entry
<1>3. pending[i].pos \in Int
  BY <1>2 DEF Offsets
<1>4. /\ pending[i].len \in BlkSize .. PageSize
      /\ mem[pending[i].pos] = [type |-> "BLOCK", length |-> pending[i].len,
                                data |-> pending[i].data]
      /\ \/ tail <= pending[i].pos /\ End(i) <= (IF seam = 0 THEN head ELSE seam)
         \/ seam # 0 /\ End(i) <= head
  BY DEF RunInv
<1>5. End(i) = pending[i].pos + pending[i].len /\ End(i) \in Int
  BY <1>3, <1>4 DEF End
<1>6. /\ mem[pending[i].pos].type = "BLOCK"
      /\ mem[pending[i].pos].length = pending[i].len
      /\ mem[pending[i].pos].data = pending[i].data
  BY <1>4
<1>7. QED
  BY <1>1, <1>2, <1>3, <1>4, <1>5, <1>6

(***************************************************************************)
(* The producer's steps that store to the ring or move head.               *)
(***************************************************************************)

(* A store by the producer leaves the block the consumer holds as it is:   *)
(* the block ends before head or, past a wrap, begins a page after the     *)
(* bytes stored.                                                           *)
LEMMA HeldKept ==
  ASSUME IInv, Copy \/ PadHead, hold # 0
  PROVE  mem'[hold] = mem[hold]
<1> USE DEF IInv
<1>1. /\ hold \in Offsets /\ hold \in Int /\ head \in Int /\ tail \in Int
      /\ HeadSize <= head /\ mem \in [Offsets -> Block]
  BY DEF TypeOK, Offsets
<1>2. mem[hold].length \in Nat
  BY <1>1 DEF Block
<1>3. /\ hold + BlkSize <= tail /\ tail <= hold + PageSize
      /\ hold + mem[hold].length <= tail
  BY DEF ConsumerInv
<1>4. CASE Copy
  <2>1. /\ mb.length \in BlkSize .. PageSize /\ mb \in Block
        /\ head + mb.length <= Length
        /\ tail > head => head + mb.length + PageSize <= tail
    BY <1>4 DEF Copy, ProducerInv, TypeOK
  <2>2. head \in Offsets /\ mb.length \in Nat /\ mb.length > 0 /\ mb \in Block
    BY <1>1, <2>1 DEF Offsets
  <2>3. /\ mem' \in [Offsets -> Block]
        /\ mem'[head] = mb
        /\ \A q \in Offsets : head + mb.length <= q => mem'[q] = mem[q]
        /\ \A q \in Offsets : q + BlkSize <= head /\ q + mem[q].length <= head
                               => mem'[q] = mem[q]
    <3>1. mem' = Store(head, mb.length, mb)
      BY <1>4 DEF Copy
    <3>2. mem \in [Offsets -> Block]
      BY <1>1
    <3>3. QED
      BY <2>2, <3>1, <3>2, StoreProperties
  <2>4. CASE tail <= head
    <3>1. hold + BlkSize <= head /\ hold + mem[hold].length <= head
      BY <1>1, <1>2, <1>3, <2>4
    <3>2. QED
      BY <1>1, <2>3, <3>1
  <2>5. CASE tail > head
    <3>1. head + mb.length <= hold
      BY <1>1, <1>3, <2>1, <2>5
    <3>2. QED
      BY <1>1, <2>3, <3>1
  <2>6. QED
    BY <1>1, <2>4, <2>5
<1>5. CASE PadHead
  <2> DEFINE pad == [type |-> "PAD", length |-> Surplus, data |-> Garbled]
  <2>1. tail <= head
    BY <1>5 DEF PadHead, ProducerInv, OffsetInv
  <2>2. hold + BlkSize <= head /\ hold + mem[hold].length <= head
    BY <1>1, <1>2, <1>3, <2>1
  <2>3. CASE Surplus < BlkSize
    BY <1>5, <2>3 DEF PadHead
  <2>4. CASE ~(Surplus < BlkSize)
    <3>1. mem' = Store(head, BlkSize, pad)
      BY <1>1, <1>5, <2>1, <2>4 DEF PadHead
    <3>2. head \in Offsets /\ pad \in Block
      BY <1>1, <2>4 DEF Surplus, Offsets, Block, Data
    <3>3. QED
      BY <1>1, <2>2, <3>1, <3>2, StoreProperties
  <2>5. QED
    BY <2>3, <2>4
<1>6. QED
  BY <1>4, <1>5

(* Writing the pad of align_queue_head preserves the invariant: the pad    *)
(* overlaps no block, and tail is not reset.                               *)
LEMMA PadHeadStep ==
  ASSUME IInv, PadHead
  PROVE  IInv'
<1> USE DEF IInv
<1> DEFINE pad == [type |-> "PAD", length |-> Surplus, data |-> Garbled]
<1>1. seam = 0 /\ HeadSize < tail /\ tail <= head /\ head + mb.length > Length
  BY DEF PadHead, ProducerInv, OffsetInv
<1>2. head \in Int /\ tail \in Int /\ ~(tail > head) /\ tail' = tail
  BY <1>1 DEF TypeOK, PadHead
<1>3. CASE Surplus < BlkSize
  <2>1. mem' = mem
    BY <1>3 DEF PadHead
  <2>2. OffsetInv' /\ RunInv' /\ ChainInv'
    BY <1>2, <2>1, RingUnchanged DEF PadHead, ringvars
  <2>3. TypeOK'
    BY <1>2, <2>1 DEF TypeOK, PadHead, cvars
  <2>4. ProducerInv'
    BY <1>1, <1>2, <1>3, <2>1 DEF ProducerInv, PadHead, Surplus
  <2>5. ConsumerInv'
    BY <1>2, <2>1 DEF ConsumerInv, PadHead, cvars
  <2>6. QED
    BY <2>2, <2>3, <2>4, <2>5
<1>4. CASE ~(Surplus < BlkSize)
  <2>1. mem' = Store(head, BlkSize, pad)
    BY <1>2, <1>4 DEF PadHead
  <2>2. head \in Offsets /\ pad \in Block
    BY <1>4 DEF TypeOK, Surplus, Offsets, Block, Data
  <2>3. /\ mem' \in [Offsets -> Block]
        /\ mem'[head] = pad
        /\ \A q \in Offsets : q + BlkSize <= head /\ q + mem[q].length <= head
                               => mem'[q] = mem[q]
    <3>1. mem \in [Offsets -> Block] /\ BlkSize \in Nat /\ BlkSize > 0
      BY DEF TypeOK
    <3>2. QED
      BY <2>1, <2>2, <3>1, StoreProperties
  <2>4. \A i \in 1 .. Len(pending) :
           pending[i].pos \in Offsets /\ mem'[pending[i].pos] = mem[pending[i].pos]
    <3> SUFFICES ASSUME NEW i \in 1 .. Len(pending)
                 PROVE  pending[i].pos \in Offsets
                        /\ mem'[pending[i].pos] = mem[pending[i].pos]
      OBVIOUS
    <3>1. End(i) <= head
      BY <1>1, UnreadBlock
    <3>2. pending[i].pos + BlkSize <= head
          /\ pending[i].pos + mem[pending[i].pos].length <= head
      BY <1>2, <3>1, UnreadBlock
    <3>3. QED
      BY <2>3, <3>2, UnreadBlock
  <2>5. OffsetInv'
    BY <1>1, <1>2 DEF OffsetInv, PadHead
  <2>6. RunInv'
    BY <1>2, <2>4 DEF RunInv, PadHead, End
  <2>7. ChainInv'
    BY <1>2 DEF ChainInv, PadHead, End, Succ
  <2>8. TypeOK'
    BY <1>2, <2>3 DEF TypeOK, PadHead, cvars
  <2>9. ProducerInv'
    BY <1>1, <1>2, <2>3 DEF ProducerInv, PadHead, Surplus
  <2>10. ConsumerInv'
    BY <1>2, HeldKept DEF ConsumerInv, PadHead, cvars
  <2>11. QED
    BY <2>5, <2>6, <2>7, <2>8, <2>9, <2>10
<1>5. QED
  BY <1>3, <1>4

(* Moving head to the start of the mapping in align_queue_head preserves   *)
(* the invariant.                                                          *)
LEMMA WrapHeadStep ==
  ASSUME IInv, WrapHead
  PROVE  IInv'
<1> USE DEF IInv
<1>1. /\ seam = 0 /\ HeadSize < tail /\ tail <= head
      /\ Surplus < BlkSize \/ mem[head].type = "PAD"
  BY DEF WrapHead, ProducerInv, OffsetInv
<1>2. /\ head' = HeadSize /\ seam' = head /\ seam' # 0
      /\ tail' = tail /\ mem' = mem /\ pending' = pending
      /\ head \in Int /\ tail \in Int /\ head <= Length /\ Len(pending) \in Nat
  BY <1>1 DEF WrapHead, TypeOK
<1>3. ASSUME NEW i \in 1 .. Len(pending)
      PROVE  tail <= pending[i].pos /\ End(i) <= head /\ pending[i].pos < head
             /\ End(i)' = End(i)
  <2>1. tail <= pending[i].pos /\ End(i) <= head
    BY <1>1, UnreadBlock
  <2>2. QED
    BY <1>2, <2>1, UnreadBlock DEF End
<1>4. TypeOK'
  BY DEF TypeOK, WrapHead, cvars
<1>5. OffsetInv'
  BY <1>1, <1>2 DEF OffsetInv, Surplus
<1>6. RunInv'
  BY <1>1, <1>2, <1>3 DEF RunInv
<1>7. ChainInv'
  <2>1. Len(pending) = 0 => head' = Succ(tail)'
    BY <1>1, <1>2 DEF ChainInv, Succ
  <2>2. ASSUME Len(pending) > 0
        PROVE  pending[1].pos = Succ(tail)' /\ head' = Succ(End(Len(pending)))'
    <3>1. pending[1].pos = tail /\ tail < head
      BY <1>1, <1>2, <1>3, <2>2 DEF ChainInv, Succ
    <3>2. End(Len(pending))' = head
      BY <1>1, <1>2, <1>3, <2>2 DEF ChainInv, Succ
    <3>3. QED
      BY <1>2, <3>1, <3>2 DEF Succ
  <2>3. ASSUME NEW i \in 1 .. Len(pending) - 1
        PROVE  pending[i + 1].pos = Succ(End(i))'
    <3>1. i \in 1 .. Len(pending) /\ i + 1 \in 1 .. Len(pending)
      BY <1>2
    <3>2. pending[i + 1].pos = End(i) /\ End(i)' = End(i) /\ End(i) < head
      BY <1>1, <1>3, <3>1 DEF ChainInv, Succ
    <3>3. QED
      BY <1>2, <3>2 DEF Succ
  <2>4. QED
    BY <1>2, <2>1, <2>2, <2>3 DEF ChainInv
<1>8. ProducerInv'
  BY <1>1, <1>2 DEF ProducerInv, WrapHead, TypeOK
<1>9. ConsumerInv'
  <2>1. Len(pending) > 0 => tail # head
    <3> SUFFICES ASSUME Len(pending) > 0 PROVE tail # head
      OBVIOUS
    <3>1. 1 \in 1 .. Len(pending)
      BY <1>2
    <3>2. /\ tail <= pending[1].pos /\ pending[1].pos < head
          /\ pending[1].pos \in Int
      BY <1>3, <3>1, UnreadBlock
    <3>3. QED
      BY <1>2, <3>2
  <2>2. QED
    BY <1>1, <1>2, <2>1 DEF ConsumerInv, WrapHead, cvars
<1>10. QED
  BY <1>4, <1>5, <1>6, <1>7, <1>8, <1>9

(* The copy of shmq_push preserves the invariant. Every unread block lies  *)
(* before head or, past a wrap, after tail.                                *)
LEMMA CopyStep ==
  ASSUME IInv, Copy
  PROVE  IInv'
<1> USE DEF IInv
<1>1. /\ mb.type = "BLOCK" /\ mb.data \in Payload
      /\ mb.length \in BlkSize .. PageSize
      /\ head + mb.length <= Length
      /\ tail > head => head + mb.length + PageSize <= tail
  BY DEF Copy, ProducerInv
<1>2. /\ head \in Int /\ tail \in Int /\ seam \in Int
      /\ head \in Offsets /\ mb.length \in Nat /\ mb.length > 0 /\ mb \in Block
      /\ Len(pending) \in Nat
  BY <1>1 DEF TypeOK, Offsets
<1>3. /\ mem' \in [Offsets -> Block]
      /\ mem'[head] = mb
      /\ \A q \in Offsets : head + mb.length <= q => mem'[q] = mem[q]
      /\ \A q \in Offsets : q + BlkSize <= head /\ q + mem[q].length <= head
                             => mem'[q] = mem[q]
  <2>1. mem' = Store(head, mb.length, mb) /\ mem \in [Offsets -> Block]
    BY DEF TypeOK, Copy
  <2>2. head \in Offsets /\ mb.length \in Nat /\ mb.length > 0 /\ mb \in Block
    BY <1>2
  <2>3. QED
    BY <2>1, <2>2, StoreProperties
<1>4. /\ seam = 0 => tail <= head
      /\ seam # 0 => head + mb.length + PageSize <= tail /\ tail <= seam
  BY <1>1 DEF OffsetInv
<1>5. ASSUME NEW i \in 1 .. Len(pending)
      PROVE  mem'[pending[i].pos] = mem[pending[i].pos]
  <2>1. CASE End(i) <= head
    <3>1. /\ pending[i].pos + BlkSize <= head
          /\ pending[i].pos + mem[pending[i].pos].length <= head
      BY <1>2, <2>1, UnreadBlock
    <3>2. QED
      BY <1>3, <3>1, UnreadBlock
  <2>2. CASE ~(End(i) <= head)
    <3>1. head + mb.length <= pending[i].pos
      BY <1>2, <1>4, <2>2, UnreadBlock
    <3>2. QED
      BY <1>3, <3>1, UnreadBlock
  <2>3. QED
    BY <2>1, <2>2
<1>6. OffsetInv'
  <2>1. ASSUME seam # 0, ~(Length - seam < BlkSize) PROVE mem'[seam] = mem[seam]
    BY <1>2, <1>3, <1>4, <2>1 DEF TypeOK, Offsets
  <2>2. QED
    BY <2>1 DEF OffsetInv, Copy
<1>7. RunInv'
  BY <1>5 DEF RunInv, Copy, End
<1>8. ChainInv'
  BY DEF ChainInv, Copy, End, Succ
<1>9. TypeOK'
  BY <1>3 DEF TypeOK, Copy, cvars
<1>10. ProducerInv'
  BY <1>1, <1>3 DEF ProducerInv, Copy
<1>11. ConsumerInv'
  BY HeldKept DEF ConsumerInv, Copy, cvars
<1>12. QED
  BY <1>6, <1>7, <1>8, <1>9, <1>10, <1>11

(* Publishing head in shmq_push preserves the invariant. The new block is  *)
(* the last of the queue of unread blocks.                                 *)
LEMMA PublishStep ==
  ASSUME IInv, Publish
  PROVE  IInv'
<1> USE DEF IInv
<1> DEFINE blk == [pos |-> head, len |-> mb.length, data |-> mb.data]
<1>0. PICK n \in Nat : n = Len(pending)
  BY DEF TypeOK
<1>1. /\ mb.type = "BLOCK" /\ mb.data \in Payload
      /\ mb.length \in BlkSize .. PageSize
      /\ head + mb.length <= Length
      /\ tail > head => head + mb.length + PageSize <= tail
      /\ mem[head] = mb
  BY DEF Publish, ProducerInv
<1>2. /\ head \in Int /\ tail \in Int /\ seam \in Int
      /\ head \in Offsets /\ mb.length \in Int /\ mb.length > 0
      /\ n \in Nat /\ pending \in Seq(Entry)
  BY <1>1 DEF TypeOK, Offsets
<1>3. blk \in Entry
  BY <1>1, <1>2 DEF Entry
<1>4. /\ pending' = Append(pending, blk)
      /\ pending' \in Seq(Entry)
      /\ Len(pending') = n + 1
      /\ \A i \in 1 .. n : pending'[i] = pending[i]
      /\ pending'[n + 1] = blk
  BY <1>0, <1>2, <1>3, AppendProperties DEF Publish
<1>5. /\ head' = head + mb.length /\ tail' = tail /\ mem' = mem /\ seam' = seam
      /\ ppc' = "idle" /\ mb' = Junk /\ cnt' = 0 /\ UNCHANGED cvars
  BY DEF Publish, Return
<1>6. /\ seam = 0 => tail <= head
      /\ seam # 0 => /\ head + mb.length + PageSize <= tail /\ tail <= seam
                     /\ head < tail
  BY <1>1 DEF OffsetInv
<1>7. \A i \in 1 .. n : End(i)' = End(i) /\ pending'[i].pos = pending[i].pos
  BY <1>4 DEF End
<1>8. End(n + 1)' = head' /\ pending'[n + 1].pos = head
      /\ pending'[n + 1].len = mb.length /\ pending'[n + 1].data = mb.data
  BY <1>4, <1>5 DEF End
<1>9. TypeOK'
  <2>1. Junk \in Block
    BY DEF Junk, Block, Data
  <2>2. head' \in HeadSize .. Length
    BY <1>1, <1>2, <1>5 DEF TypeOK
  <2>3. QED
    BY <1>4, <1>5, <2>1, <2>2 DEF TypeOK, cvars
<1>10. OffsetInv'
  BY <1>2, <1>5, <1>6 DEF OffsetInv
<1>11. RunInv'
  <2>1. ASSUME NEW i \in 1 .. n + 1
        PROVE  /\ pending'[i].len \in BlkSize .. PageSize
               /\ mem'[pending'[i].pos] = [type |-> "BLOCK", length |-> pending'[i].len,
                                           data |-> pending'[i].data]
               /\ \/ /\ tail' <= pending'[i].pos
                     /\ End(i)' <= (IF seam' = 0 THEN head' ELSE seam')
                  \/ seam' # 0 /\ End(i)' <= head'
    <3>1. CASE i \in 1 .. n
      <4>1. /\ pending[i].len \in BlkSize .. PageSize
            /\ mem[pending[i].pos] = [type |-> "BLOCK", length |-> pending[i].len,
                                      data |-> pending[i].data]
        BY <1>0, <3>1 DEF RunInv
      <4>2. \/ tail <= pending[i].pos /\ End(i) <= (IF seam = 0 THEN head' ELSE seam)
            \/ seam # 0 /\ End(i) <= head'
        BY <1>0, <1>2, <1>5, <3>1, UnreadBlock
      <4>3. QED
        BY <1>4, <1>5, <1>7, <3>1, <4>1, <4>2
    <3>2. CASE i = n + 1
      <4>1. mb = [type |-> "BLOCK", length |-> mb.length, data |-> mb.data]
        BY <1>1 DEF TypeOK, Block
      <4>2. tail <= head \/ seam # 0
        BY <1>6
      <4>3. /\ pending'[i].len = mb.length /\ pending'[i].data = mb.data
            /\ pending'[i].pos = head /\ End(i)' = head'
        BY <1>8, <3>2
      <4>4. head' <= head'
        BY <1>2, <1>5
      <4>5. QED
        BY <1>1, <1>5, <4>1, <4>2, <4>3, <4>4
    <3>3. QED
      BY <1>2, <3>1, <3>2
  <2>2. ASSUME NEW i \in 1 .. n + 1, NEW j \in 1 .. n + 1, i < j
        PROVE  \/ End(i)' <= pending'[j].pos
               \/ seam' # 0 /\ tail' <= pending'[i].pos /\ End(j)' <= head'
    <3>1. i \in 1 .. n
      BY <1>2, <2>2
    <3>2. CASE j \in 1 .. n
      <4>1. \/ End(i) <= pending[j].pos
            \/ seam # 0 /\ tail <= pending[i].pos /\ End(j) <= head
        BY <1>0, <2>2, <3>1, <3>2 DEF RunInv
      <4>2. End(j) \in Int
        BY <1>0, <3>2, UnreadBlock
      <4>3. QED
        BY <1>2, <1>5, <1>7, <3>1, <3>2, <4>1, <4>2
    <3>3. CASE j = n + 1
      <4>1. \/ End(i) <= head
            \/ seam # 0 /\ tail <= pending[i].pos
        BY <1>0, <3>1, UnreadBlock
      <4>2. head' <= head'
        BY <1>2, <1>5
      <4>3. QED
        BY <1>5, <1>7, <1>8, <3>1, <3>3, <4>1, <4>2
    <3>4. QED
      BY <1>2, <3>2, <3>3
  <2>3. QED
    BY <1>4, <2>1, <2>2 DEF RunInv
<1>12. ChainInv'
  <2>1. pending'[1].pos = Succ(tail)'
    <3>1. CASE n = 0
      BY <1>0, <1>4, <1>5, <1>8, <3>1 DEF ChainInv, Succ
    <3>2. CASE n > 0
      <4>1. pending[1].pos = Succ(tail) /\ 1 \in 1 .. n
        BY <1>0, <1>2, <3>2 DEF ChainInv
      <4>2. QED
        BY <1>5, <1>7, <4>1 DEF Succ
    <3>3. QED
      BY <1>2, <3>1, <3>2
  <2>2. head' = Succ(End(n + 1))'
    <3>1. seam' # 0 => head' # seam'
      BY <1>1, <1>2, <1>5, <1>6
    <3>2. QED
      BY <1>8, <3>1 DEF Succ
  <2>3. ASSUME NEW i \in 1 .. n
        PROVE  pending'[i + 1].pos = Succ(End(i))'
    <3>1. CASE i = n
      <4>1. head = Succ(End(n))
        BY <1>0, <1>2, <3>1 DEF ChainInv
      <4>2. QED
        BY <1>5, <1>7, <1>8, <3>1, <4>1 DEF Succ
    <3>2. CASE i # n
      <4>1. i \in 1 .. n - 1 /\ i + 1 \in 1 .. n
        BY <1>2, <3>2
      <4>2. pending[i + 1].pos = Succ(End(i))
        BY <1>0, <4>1 DEF ChainInv
      <4>3. QED
        BY <1>5, <1>7, <4>1, <4>2 DEF Succ
    <3>3. QED
      BY <3>1, <3>2
  <2>4. Len(pending') - 1 = n /\ ~(Len(pending') = 0)
    BY <1>2, <1>4
  <2>5. QED
    BY <1>0, <1>4, <2>1, <2>2, <2>3, <2>4 DEF ChainInv
<1>13. ProducerInv'
  BY <1>5 DEF ProducerInv
<1>14. ConsumerInv'
  <2>1. tail # head'
    BY <1>1, <1>2, <1>5, <1>6
  <2>2. cpc \in {"check", "take"} => tail # seam
    BY <1>2, <1>6 DEF ConsumerInv, TypeOK
  <2>3. Len(pending') > 0
    BY <1>2, <1>4
  <2>4. QED
    BY <1>5, <2>1, <2>2, <2>3 DEF ConsumerInv, cvars
<1>15. QED
  BY <1>9, <1>10, <1>11, <1>12, <1>13, <1>14

(***************************************************************************)
(* The consumer's steps that move tail or store to the ring.               *)
(***************************************************************************)

(* In the middle of align_queue_tail the consumer is at the seam exactly   *)
(* when it sees no room for a header or a pad; otherwise it is at a block. *)
LEMMA SeamRecognised ==
  ASSUME IInv, seam # 0
  PROVE  /\ AtSeam <=> tail = seam
         /\ tail # seam => Len(pending) > 0 /\ pending[1].pos = tail
<1> USE DEF IInv
<1>1. /\ head \in Int /\ tail \in Int /\ seam \in Int /\ Len(pending) \in Nat
      /\ head < tail /\ tail <= seam /\ seam <= Length
      /\ Length - seam < BlkSize \/ mem[seam].type = "PAD"
  BY DEF TypeOK, OffsetInv
<1>2. tail = seam => AtSeam
  BY <1>1 DEF AtSeam
<1>3. ASSUME tail # seam
      PROVE  Len(pending) > 0 /\ pending[1].pos = tail /\ ~AtSeam
  <2>1. Len(pending) > 0
    BY <1>1, <1>3 DEF ChainInv, Succ
  <2>2. pending[1].pos = tail /\ 1 \in 1 .. Len(pending)
    BY <1>1, <1>3, <2>1 DEF ChainInv, Succ
  <2>3. /\ End(1) = pending[1].pos + pending[1].len /\ End(1) \in Int
        /\ pending[1].len \in BlkSize .. PageSize
        /\ mem[tail].type = "BLOCK"
        /\ \/ tail <= pending[1].pos /\ End(1) <= seam
           \/ seam # 0 /\ End(1) <= head
    BY <2>2, UnreadBlock
  <2>4. ~(Length - tail < BlkSize)
    BY <1>1, <2>2, <2>3
  <2>5. QED
    BY <2>1, <2>2, <2>3, <2>4 DEF AtSeam
<1>4. QED
  BY <1>2, <1>3

(* Following the wrap in align_queue_tail preserves the invariant.         *)
LEMMA SkipTailStep ==
  ASSUME IInv, SkipTail
  PROVE  IInv'
<1> USE DEF IInv
<1>1. /\ seam # 0 /\ hold = 0 /\ cpc = "skip" /\ cpc' = "check"
      /\ head' = head /\ mem' = mem /\ pending' = pending /\ hold' = hold
      /\ UNCHANGED pvars
  BY DEF SkipTail, ConsumerInv
<1>2. CASE tail # seam
  <2>1. tail' = tail /\ seam' = seam /\ Len(pending) > 0
    BY <1>1, <1>2, SeamRecognised DEF SkipTail
  <2>2. OffsetInv' /\ RunInv' /\ ChainInv'
    BY <1>1, <2>1, RingUnchanged DEF ringvars
  <2>3. TypeOK'
    BY <1>1, <2>1 DEF TypeOK, pvars
  <2>4. ProducerInv'
    BY <1>1, <2>1 DEF ProducerInv, pvars, Surplus
  <2>5. ConsumerInv'
    BY <1>1, <1>2, <2>1 DEF ConsumerInv
  <2>6. QED
    BY <2>2, <2>3, <2>4, <2>5
<1>3. CASE tail = seam
  <2>1. /\ tail' = HeadSize /\ seam' = 0
        /\ head \in Int /\ HeadSize <= head /\ head < tail /\ tail \in Int
        /\ Len(pending) \in Nat
    BY <1>1, <1>3, SeamRecognised DEF SkipTail, TypeOK, OffsetInv
  <2>2. ASSUME NEW i \in 1 .. Len(pending)
        PROVE  /\ End(i) <= head /\ HeadSize <= pending[i].pos /\ End(i)' = End(i)
               /\ pending[i].pos < tail /\ End(i) # seam
    <3>1. End(i) <= head
      BY <1>3, <2>1, UnreadBlock
    <3>2. HeadSize <= pending[i].pos /\ pending[i].pos \in Int
      BY UnreadBlock DEF Offsets
    <3>3. End(i) = pending[i].pos + pending[i].len /\ pending[i].len \in BlkSize .. PageSize
      BY UnreadBlock
    <3>4. End(i)' = End(i)
      BY <1>1 DEF End
    <3>5. pending[i].pos < tail /\ End(i) # seam
      BY <1>3, <2>1, <3>1, <3>2, <3>3
    <3>6. QED
      BY <3>1, <3>2, <3>4, <3>5
  <2>3. TypeOK'
    BY <1>1, <2>1 DEF TypeOK, pvars
  <2>4. OffsetInv'
    BY <1>1, <2>1 DEF OffsetInv
  <2>5. RunInv'
    <3>1. ASSUME NEW i \in 1 .. Len(pending), NEW j \in 1 .. Len(pending), i < j
          PROVE  End(i) <= pending[j].pos
      <4>1. \/ End(i) <= pending[j].pos
            \/ tail <= pending[i].pos
        BY <3>1 DEF RunInv
      <4>2. pending[i].pos < tail /\ pending[i].pos \in Int
        BY <2>2, UnreadBlock
      <4>3. QED
        BY <2>1, <4>1, <4>2
    <3>2. QED
      BY <1>1, <2>1, <2>2, <3>1 DEF RunInv
  <2>6. ChainInv'
    <3>1. Len(pending) = 0 => head = HeadSize
      BY <1>1, <1>3 DEF ChainInv, Succ
    <3>2. Len(pending) > 0 => pending[1].pos = HeadSize /\ head = End(Len(pending))
      BY <1>1, <1>3, <2>1, <2>2 DEF ChainInv, Succ
    <3>3. \A i \in 1 .. Len(pending) - 1 : pending[i + 1].pos = End(i)
      BY <2>1, <2>2 DEF ChainInv, Succ
    <3>4. QED
      BY <1>1, <2>1, <2>2, <3>1, <3>2, <3>3 DEF ChainInv, Succ
  <2>7. ProducerInv'
    BY <1>1, <2>1 DEF ProducerInv, pvars, Surplus
  <2>8. ConsumerInv'
    <3>1. Len(pending) = 0 => head = HeadSize
      BY <1>1, <1>3 DEF ChainInv, Succ
    <3>2. QED
      BY <1>1, <2>1, <3>1 DEF ConsumerInv
  <2>9. QED
    BY <2>3, <2>4, <2>5, <2>6, <2>7, <2>8
<1>4. QED
  BY <1>2, <1>3

(* The block shmq_pop is about to take is the oldest unread one. *)
LEMMA TakeFacts ==
  ASSUME IInv, cpc = "take"
  PROVE  /\ Len(pending) > 0 /\ 1 \in 1 .. Len(pending) /\ tail # seam
         /\ pending[1].pos = tail /\ tail \in Offsets
         /\ mem[tail] = [type |-> "BLOCK", length |-> pending[1].len,
                         data |-> pending[1].data]
         /\ pending[1].len \in BlkSize .. PageSize /\ pending[1].data \in Payload
         /\ End(1) = tail + pending[1].len
         /\ End(1) <= (IF seam = 0 THEN head ELSE seam)
<1> USE DEF IInv
<1>1. /\ Len(pending) > 0 /\ tail # seam /\ Len(pending) \in Nat
      /\ head \in Int /\ tail \in Int
  BY DEF ConsumerInv, TypeOK
<1>2. pending[1].pos = tail /\ 1 \in 1 .. Len(pending)
  BY <1>1 DEF ChainInv, Succ
<1>3. mem[tail] = [type |-> "BLOCK", length |-> pending[1].len,
                   data |-> pending[1].data]
  BY <1>2 DEF RunInv
<1>4. /\ pending[1].len \in BlkSize .. PageSize /\ pending[1].data \in Payload
      /\ End(1) = tail + pending[1].len /\ End(1) \in Int /\ tail \in Offsets
      /\ \/ End(1) <= (IF seam = 0 THEN head ELSE seam)
         \/ seam # 0 /\ End(1) <= head
  BY <1>2, UnreadBlock
<1>5. seam # 0 => head < tail
  BY DEF OffsetInv
<1>6. End(1) <= (IF seam = 0 THEN head ELSE seam)
  BY <1>1, <1>4, <1>5
<1>7. QED
  BY <1>1, <1>2, <1>3, <1>4, <1>6

(* Moving tail past the oldest block in shmq_pop preserves the invariant,  *)
(* and the consumer works on that block.                                   *)
LEMMA TakeStep ==
  ASSUME IInv, Take
  PROVE  IInv'
<1> USE DEF IInv
<1>0. PICK n \in Nat : n = Len(pending)
  BY DEF TypeOK
<1>1. /\ n > 0 /\ 1 \in 1 .. n /\ tail # seam
      /\ pending[1].pos = tail /\ tail \in Offsets
      /\ mem[tail] = [type |-> "BLOCK", length |-> pending[1].len,
                         data |-> pending[1].data]
      /\ pending[1].len \in BlkSize .. PageSize /\ pending[1].data \in Payload
      /\ End(1) = tail + pending[1].len
      /\ End(1) <= (IF seam = 0 THEN head ELSE seam)
  BY <1>0, TakeFacts DEF Take
<1>2. /\ cpc' = "idle" /\ hold' = tail /\ tail' = End(1)
      /\ head' = head /\ mem' = mem /\ seam' = seam /\ UNCHANGED pvars
  BY <1>1 DEF Take
<1>3. /\ pending' \in Seq(Entry)
      /\ Len(pending') = n - 1
      /\ \A i \in 1 .. n - 1 : pending'[i] = pending[i + 1]
  <2>1. pending \in Seq(Entry) /\ pending # <<>>
    BY <1>0, <1>1 DEF TypeOK
  <2>2. QED
    BY <1>0, <2>1, HeadTailProperties DEF Take
<1>4. /\ head \in Int /\ tail \in Int /\ seam \in Int /\ tail' \in Int
      /\ tail < tail' /\ tail + BlkSize <= tail' /\ tail' <= tail + PageSize
      /\ seam = 0 => tail' <= head
      /\ seam # 0 => head < tail /\ tail' <= seam
  BY <1>1, <1>2 DEF TypeOK, OffsetInv
<1>5. ASSUME NEW i \in 1 .. n - 1
      PROVE  /\ i \in 1 .. n /\ i + 1 \in 1 .. n
             /\ End(i)' = End(i + 1) /\ pending'[i].pos = pending[i + 1].pos
             /\ tail' <= pending[i + 1].pos \/ (seam # 0 /\ End(i + 1) <= head)
  <2>1. i \in 1 .. n /\ i + 1 \in 1 .. n /\ 1 < i + 1
    OBVIOUS
  <2>2. End(i)' = End(i + 1) /\ pending'[i].pos = pending[i + 1].pos
    BY <1>3 DEF End
  <2>3. tail' <= pending[i + 1].pos \/ (seam # 0 /\ End(i + 1) <= head)
    BY <1>0, <1>1, <1>2, <2>1 DEF RunInv
  <2>4. QED
    BY <2>1, <2>2, <2>3
<1>6. TypeOK'
  <2>1. tail' \in HeadSize .. Length
    BY <1>4 DEF TypeOK
  <2>2. QED
    BY <1>1, <1>2, <1>3, <2>1 DEF TypeOK, pvars
<1>7. OffsetInv'
  BY <1>2, <1>4 DEF OffsetInv
<1>8. RunInv'
  <2>1. ASSUME NEW i \in 1 .. n - 1
        PROVE  /\ pending'[i].len \in BlkSize .. PageSize
               /\ mem'[pending'[i].pos] = [type |-> "BLOCK", length |-> pending'[i].len,
                                           data |-> pending'[i].data]
               /\ \/ /\ tail' <= pending'[i].pos
                     /\ End(i)' <= (IF seam' = 0 THEN head' ELSE seam')
                  \/ seam' # 0 /\ End(i)' <= head'
    <3>1. i + 1 \in 1 .. Len(pending)
      BY <1>0, <1>5
    <3>2. /\ pending[i + 1].len \in BlkSize .. PageSize
          /\ mem[pending[i + 1].pos] = [type |-> "BLOCK", length |-> pending[i + 1].len,
                                        data |-> pending[i + 1].data]
          /\ \/ End(i + 1) <= (IF seam = 0 THEN head ELSE seam)
             \/ seam # 0 /\ End(i + 1) <= head
      BY <3>1 DEF RunInv
    <3>3. QED
      BY <1>2, <1>3, <1>5, <3>2
  <2>2. ASSUME NEW i \in 1 .. n - 1, NEW j \in 1 .. n - 1, i < j
        PROVE  \/ End(i)' <= pending'[j].pos
               \/ seam' # 0 /\ tail' <= pending'[i].pos /\ End(j)' <= head'
    <3>1. i + 1 \in 1 .. Len(pending) /\ j + 1 \in 1 .. Len(pending) /\ i + 1 < j + 1
      BY <1>0, <1>5, <2>2
    <3>2. \/ End(i + 1) <= pending[j + 1].pos
          \/ seam # 0 /\ tail <= pending[i + 1].pos /\ End(j + 1) <= head
      BY <3>1 DEF RunInv
    <3>3. seam # 0 /\ tail <= pending[i + 1].pos => tail' <= pending[i + 1].pos
      <4>2. /\ pending[i + 1].pos \in Int /\ pending[i + 1].len \in BlkSize .. PageSize
            /\ End(i + 1) = pending[i + 1].pos + pending[i + 1].len
        BY <3>1, UnreadBlock
      <4>1. (End(i + 1) <= head /\ seam # 0) => pending[i + 1].pos < tail
        BY <1>4, <4>2
      <4>3. QED
        BY <1>4, <1>5, <4>1, <4>2
    <3>4. QED
      BY <1>2, <1>5, <3>2, <3>3
  <2>3. QED
    BY <1>3, <2>1, <2>2 DEF RunInv
<1>9. ChainInv'
  <2>1. CASE n = 1
    <3>1. head' = Succ(tail)'
      BY <1>0, <1>1, <1>2, <2>1 DEF ChainInv, Succ
    <3>2. QED
      BY <1>3, <2>1, <3>1 DEF ChainInv
  <2>2. CASE n # 1
    <3>1. n - 1 > 0 /\ 1 \in 1 .. n - 1 /\ n - 1 \in 1 .. n - 1 /\ (n - 1) + 1 = n
      BY <1>1, <2>2
    <3>2. pending[2].pos = Succ(End(1)) /\ head = Succ(End(n))
      BY <1>0, <1>1, <3>1 DEF ChainInv
    <3>3. pending'[1].pos = Succ(tail)'
      BY <1>2, <1>5, <3>1, <3>2 DEF Succ
    <3>4. head' = Succ(End(n - 1))'
      BY <1>2, <1>5, <3>1, <3>2 DEF Succ
    <3>5. ASSUME NEW i \in 1 .. (n - 1) - 1
          PROVE  pending'[i + 1].pos = Succ(End(i))'
      <4>1. i \in 1 .. n - 1 /\ i + 1 \in 1 .. n - 1
        OBVIOUS
      <4>2. pending[(i + 1) + 1].pos = Succ(End(i + 1))
        BY <1>0, <4>1 DEF ChainInv
      <4>3. QED
        BY <1>2, <1>5, <4>1, <4>2 DEF Succ
    <3>6. QED
      BY <1>3, <3>1, <3>3, <3>4, <3>5 DEF ChainInv
  <2>3. QED
    BY <2>1, <2>2
<1>10. ProducerInv'
  <2>1. mb.length \in Nat
    BY DEF TypeOK, Block
  <2>2. HeadSize < tail => HeadSize < tail'
    BY <1>4
  <2>3. tail' > head => tail > head
    BY <1>4
  <2>4. head + mb.length + PageSize <= tail => head + mb.length + PageSize <= tail'
    BY <1>4, <2>1
  <2>5. QED
    BY <1>2, <2>2, <2>3, <2>4 DEF ProducerInv, pvars, Surplus
<1>11. ConsumerInv'
  BY <1>1, <1>2, <1>4 DEF ConsumerInv
<1>12. QED
  BY <1>6, <1>7, <1>8, <1>9, <1>10, <1>11

(* The in-place FIN_BLOCK of handle_recv_queue preserves the invariant: it *)
(* stays inside the block the consumer works on.                           *)
LEMMA RewriteStep ==
  ASSUME IInv, Rewrite
  PROVE  IInv'
<1> USE DEF IInv
<1> DEFINE fin == [mem[hold] EXCEPT !.length = BlkSize]
<1>1. /\ hold # 0 /\ cpc = "idle"
      /\ hold + BlkSize <= tail /\ tail <= hold + PageSize
      /\ mem[hold].type = "BLOCK" /\ mem[hold].data \in Payload
      /\ mem' = Store(hold, BlkSize, fin)
      /\ UNCHANGED <<head, tail, ppc, mb, cnt, cpc, hold, pending, seam>>
  BY DEF Rewrite, ConsumerInv, pvars, cvars
<1>2. /\ head \in Int /\ tail \in Int /\ seam \in Int /\ hold \in Int
      /\ hold \in Offsets /\ HeadSize <= hold
      /\ mem \in [Offsets -> Block] /\ mem[hold] \in Block /\ Len(pending) \in Nat
  BY <1>1 DEF TypeOK, Offsets
<1>3. /\ fin \in Block /\ fin.type = "BLOCK"
      /\ fin.data \in Payload /\ fin.length = BlkSize
  BY <1>1, <1>2 DEF Block
<1> HIDE DEF fin
<1>4. /\ mem' \in [Offsets -> Block]
      /\ mem'[hold] = fin
      /\ \A q \in Offsets : hold + BlkSize <= q => mem'[q] = mem[q]
      /\ \A q \in Offsets : q + BlkSize <= hold /\ q + mem[q].length <= hold
                             => mem'[q] = mem[q]
  <2>1. /\ mem' = Store(hold, BlkSize, fin) /\ fin \in Block
        /\ mem \in [Offsets -> Block] /\ hold \in Offsets
        /\ BlkSize \in Nat /\ BlkSize > 0
    BY <1>1, <1>2, <1>3
  <2>2. QED
    BY <2>1, StoreProperties
<1>5. /\ seam = 0 => tail <= head
      /\ seam # 0 => /\ head = HeadSize \/ head <= hold
                     /\ tail <= seam
  BY <1>1, <1>2 DEF OffsetInv
<1>6. ASSUME NEW i \in 1 .. Len(pending)
      PROVE  mem'[pending[i].pos] = mem[pending[i].pos]
  <2>1. /\ pending[i].pos \in Offsets /\ pending[i].pos \in Int
        /\ HeadSize <= pending[i].pos
        /\ pending[i].len \in BlkSize .. PageSize
        /\ mem[pending[i].pos].length = pending[i].len
        /\ End(i) = pending[i].pos + pending[i].len
        /\ tail <= pending[i].pos \/ (seam # 0 /\ End(i) <= head)
    BY UnreadBlock DEF Offsets
  <2>2. CASE tail <= pending[i].pos
    <3>1. hold + BlkSize <= pending[i].pos
      BY <1>1, <1>2, <2>1, <2>2
    <3>2. QED
      BY <1>4, <2>1, <3>1
  <2>3. CASE seam # 0 /\ End(i) <= head
    <3>1. head # HeadSize
      BY <1>2, <2>1, <2>3
    <3>2. /\ pending[i].pos + BlkSize <= hold
          /\ pending[i].pos + mem[pending[i].pos].length <= hold
      BY <1>2, <1>5, <2>1, <2>3, <3>1
    <3>3. QED
      BY <1>4, <2>1, <3>2
  <2>4. QED
    BY <2>1, <2>2, <2>3
<1>7. TypeOK'
  BY <1>1, <1>4 DEF TypeOK
<1>8. OffsetInv'
  <2>1. ASSUME seam # 0, ~(Length - seam < BlkSize) PROVE mem'[seam] = mem[seam]
    <3>1. seam \in Offsets
      BY <1>2, <2>1 DEF TypeOK, Offsets
    <3>2. hold + BlkSize <= seam
      BY <1>1, <1>2, <1>5, <2>1
    <3>3. QED
      BY <1>4, <3>1, <3>2
  <2>2. QED
    BY <1>1, <2>1 DEF OffsetInv
<1>9. RunInv'
  BY <1>1, <1>6 DEF RunInv, End
<1>10. ChainInv'
  BY <1>1 DEF ChainInv, End, Succ
<1>11. ProducerInv'
  <2>1. ASSUME ppc = "wrap", ~(Surplus < BlkSize) PROVE mem'[head] = mem[head]
    <3>1. tail <= head /\ head \in Offsets
      BY <1>2, <1>5, <2>1 DEF ProducerInv, Surplus, TypeOK, Offsets
    <3>2. QED
      BY <1>1, <1>2, <1>4, <3>1
  <2>2. ASSUME ppc = "publish" PROVE mem'[head] = mem[head]
    <3>1. /\ mb.length \in BlkSize .. PageSize /\ head + mb.length <= Length
          /\ mem[head] = mb
          /\ tail > head => head + mb.length + PageSize <= tail
      BY <2>2 DEF ProducerInv
    <3>2. head \in Offsets
      BY <1>2, <3>1 DEF TypeOK, Offsets
    <3>3. CASE tail > head
      <4>1. head + BlkSize <= hold /\ head + mem[head].length <= hold
        <5>1. mem[head].length = mb.length /\ mb.length \in Int
          BY <3>1
        <5>2. head + BlkSize <= hold /\ head + mb.length <= hold
          BY <1>1, <1>2, <3>1, <3>3
        <5>3. QED
          BY <5>1, <5>2
      <4>2. QED
        BY <1>4, <3>2, <4>1
    <3>4. CASE ~(tail > head)
      <4>1. hold + BlkSize <= head
        BY <1>1, <1>2, <3>4
      <4>2. QED
        BY <1>4, <3>2, <4>1
    <3>5. QED
      BY <3>3, <3>4
  <2>3. QED
    BY <1>1, <2>1, <2>2 DEF ProducerInv, Surplus
<1>12. ConsumerInv'
  BY <1>1, <1>2, <1>3, <1>4 DEF ConsumerInv
<1>13. QED
  BY <1>7, <1>8, <1>9, <1>10, <1>11, <1>12

(***************************************************************************)
(* The theorems.                                                           *)
(***************************************************************************)

(* Every step of either process preserves the inductive invariant. *)
LEMMA NextIInv == IInv /\ [Next]_vars => IInv'
<1> SUFFICES ASSUME IInv, [Next]_vars PROVE IInv'
  OBVIOUS
<1>1. ASSUME NEW len \in Lens, NEW d \in Payload, Push(len, d) PROVE IInv'
  BY <1>1, PushStep
<1>2. CASE AlignHead
  BY <1>2, AlignHeadStep
<1>3. CASE PadHead
  BY <1>3, PadHeadStep
<1>4. CASE WrapHead
  BY <1>4, WrapHeadStep
<1>5. CASE TestBehind
  BY <1>5, TestBehindStep
<1>6. CASE TestRoom
  BY <1>6, TestRoomStep
<1>7. CASE Copy
  BY <1>7, CopyStep
<1>8. CASE Publish
  BY <1>8, PublishStep
<1>9. CASE Pop
  BY <1>9, PopStep
<1>10. CASE AlignTail
  BY <1>10, AlignTailStep
<1>11. CASE SkipTail
  BY <1>11, SkipTailStep
<1>12. CASE CheckEmpty
  BY <1>12, CheckEmptyStep
<1>13. CASE Take
  BY <1>13, TakeStep
<1>14. CASE Rewrite
  BY <1>14, RewriteStep
<1>15. CASE UNCHANGED vars
  BY <1>15 DEF vars, pvars, cvars, IInv, TypeOK, OffsetInv, RunInv, ChainInv,
               ProducerInv, ConsumerInv, Succ, End, Surplus
<1>16. QED
  BY <1>1, <1>2, <1>3, <1>4, <1>5, <1>6, <1>7, <1>8, <1>9, <1>10, <1>11,
     <1>12, <1>13, <1>14, <1>15 DEF Next, Producer, Consumer

(* The inductive invariant holds in every reachable state. *)
THEOREM Invariance == Spec => []IInv
<1>1. Init => IInv
  BY InitIInv
<1>2. IInv /\ [Next]_vars => IInv'
  BY NextIInv
<1>3. QED
  BY <1>1, <1>2, PTL DEF Spec

(* shmq_push and shmq_pop keep the offsets inside the mapping and every    *)
(* variable in its type.                                                   *)
THEOREM TypeCorrect == Spec => []TypeOK
<1>1. IInv => TypeOK
  BY DEF IInv
<1>2. QED
  BY <1>1, Invariance, PTL

(* No store of shmq_push (the block at shmq.c:177-181, the pad at          *)
(* shmq.c:110-116) leaves the mapping, hits an unread block, or hits the   *)
(* block the consumer still works on after shmq_pop moved tail past it.    *)
THEOREM SafeWrites == Spec => []WritesAreSafe
<1>1. IInv => WritesAreSafe
  <2> SUFFICES ASSUME IInv, NEW b \in Writing
               PROVE  b \in Offsets \ (Held \cup Unread)
    BY DEF WritesAreSafe
  <2> USE DEF IInv
  <2>1. /\ head \in Int /\ tail \in Int /\ seam \in Int /\ HeadSize <= head
        /\ ppc \in {"copy", "pad"}
    BY DEF TypeOK, Writing
  <2>2. /\ mb.length \in BlkSize .. PageSize
        /\ ppc = "pad" => seam = 0
        /\ ppc = "copy" => head + mb.length <= Length
        /\ ppc = "copy" /\ tail > head => head + mb.length + PageSize <= tail
    BY <2>1 DEF ProducerInv
  <2>3. /\ b \in Int /\ head <= b /\ b < Length
        /\ tail > head => b + PageSize < tail
    <3>1. CASE ppc = "copy"
      <4>1. b \in head .. head + mb.length - 1
        BY <3>1 DEF Writing
      <4>2. QED
        BY <2>1, <2>2, <3>1, <4>1
    <3>2. CASE ppc = "pad"
      <4>1. b \in head .. head + BlkSize - 1 /\ Surplus >= BlkSize
        BY <3>2 DEF Writing
      <4>2. tail <= head
        BY <2>2, <3>2 DEF OffsetInv
      <4>3. QED
        BY <2>1, <4>1, <4>2 DEF Surplus
    <3>3. QED
      BY <2>1, <3>1, <3>2
  <2>4. b \in Offsets
    BY <2>1, <2>3 DEF Offsets
  <2>5. b \notin Held
    <3>1. ASSUME hold # 0 PROVE b \notin hold .. tail - 1
      <4>1. hold \in Int /\ tail <= hold + PageSize
        BY <3>1 DEF TypeOK, Offsets, ConsumerInv
      <4>2. QED
        BY <2>1, <2>3, <4>1
    <3>2. QED
      BY <3>1 DEF Held
  <2>6. ASSUME NEW i \in DOMAIN pending
        PROVE  b \notin pending[i].pos .. pending[i].pos + pending[i].len - 1
    <3>1. i \in 1 .. Len(pending)
      BY DEF TypeOK
    <3>2. /\ pending[i].pos \in Int /\ pending[i].len \in BlkSize .. PageSize
          /\ End(i) = pending[i].pos + pending[i].len
          /\ \/ tail <= pending[i].pos /\ End(i) <= (IF seam = 0 THEN head ELSE seam)
             \/ seam # 0 /\ End(i) <= head
      BY <3>1, UnreadBlock
    <3>3. seam # 0 => head < tail
      BY DEF OffsetInv
    <3>4. QED
      BY <2>1, <2>3, <3>2, <3>3
  <2>7. b \notin Unread
    BY <2>6 DEF Unread
  <2>8. QED
    BY <2>4, <2>5, <2>7
<1>2. QED
  BY <1>1, Invariance, PTL

(* Where shmq_pop reads a block header (shmq.c:70-73 and 134-139) there is *)
(* one; the block it takes is the oldest one it has not taken.             *)
THEOREM SafeReads == Spec => []ReadsAreBlocks
<1>1. IInv => ReadsAreBlocks
  <2> SUFFICES ASSUME IInv PROVE ReadsAreBlocks
    OBVIOUS
  <2>1. ASSUME cpc = "skip", Length - tail >= BlkSize
        PROVE  mem[tail].type # "JUNK"
    <3>1. seam # 0 /\ tail \in Int
      BY <2>1 DEF IInv, ConsumerInv, TypeOK
    <3>2. CASE tail = seam
      BY <2>1, <3>1, <3>2 DEF IInv, OffsetInv
    <3>3. CASE tail # seam
      <4>1. Len(pending) > 0 /\ pending[1].pos = tail /\ Len(pending) \in Nat
        BY <3>1, <3>3, SeamRecognised DEF IInv, TypeOK
      <4>2. mem[pending[1].pos].type = "BLOCK"
        BY <4>1, UnreadBlock DEF IInv
      <4>3. QED
        BY <4>1, <4>2
    <3>4. QED
      BY <3>2, <3>3
  <2>2. ASSUME cpc = "take"
        PROVE  /\ pending # <<>>
               /\ mem[tail] = [type   |-> "BLOCK",
                               length |-> Head(pending).len,
                               data   |-> Head(pending).data]
    <3>1. pending # <<>> /\ pending \in Seq(Entry)
      BY <2>2, TakeFacts DEF IInv, TypeOK
    <3>2. Head(pending) = pending[1]
      BY <3>1
    <3>3. QED
      BY <2>2, <3>1, <3>2, TakeFacts
  <2>3. QED
    BY <2>1, <2>2 DEF ReadsAreBlocks
<1>2. QED
  BY <1>1, Invariance, PTL

(* The branch of align_queue_head marked "should be impossible"            *)
(* (shmq.c:95-103) is never taken: only shmq_pop moves tail.               *)
THEOREM TailIsTheConsumers == Spec => OnlyConsumerMovesTail
<1>1. IInv /\ [Next]_vars => [tail' # tail => cpc' # cpc]_vars
  <2> SUFFICES ASSUME IInv, Next PROVE tail' # tail => cpc' # cpc
    OBVIOUS
  <2>1. CASE PadHead
    <3>1. tail <= head /\ tail \in Int /\ head \in Int
      BY <2>1 DEF PadHead, IInv, ProducerInv, OffsetInv, TypeOK
    <3>2. QED
      BY <2>1, <3>1 DEF PadHead
  <2>2. CASE SkipTail \/ Take
    BY <2>2 DEF SkipTail, Take
  <2>3. CASE \/ \E len \in Lens, d \in Payload : Push(len, d)
             \/ AlignHead \/ WrapHead \/ TestBehind \/ TestRoom \/ Copy \/ Publish
             \/ Pop \/ AlignTail \/ CheckEmpty \/ Rewrite
    BY <2>3 DEF Push, AlignHead, WrapHead, TestBehind, TestRoom, Copy, Publish,
                Pop, AlignTail, CheckEmpty, Rewrite
  <2>4. QED
    BY <2>1, <2>2, <2>3 DEF Next, Producer, Consumer
<1>2. QED
  BY <1>1, Invariance, PTL DEF Spec, OnlyConsumerMovesTail

(***************************************************************************)
(* The ring implements a FIFO channel.                                     *)
(***************************************************************************)

(* The data of a sequence of blocks is a sequence. *)
LEMMA DataOfSeq ==
  ASSUME NEW s \in Seq(Entry)
  PROVE  /\ DataOf(s) \in Seq(Payload) /\ Len(DataOf(s)) = Len(s)
         /\ \A i \in 1 .. Len(s) : DataOf(s)[i] = s[i].data
<1>1. Len(s) \in Nat /\ DOMAIN s = 1 .. Len(s)
  BY LenProperties
<1>2. \A i \in 1 .. Len(s) : s[i].data \in Payload
  <2> SUFFICES ASSUME NEW i \in 1 .. Len(s) PROVE s[i].data \in Payload
    OBVIOUS
  <2>1. s[i] \in Entry
    BY ElementOfSeq
  <2>2. QED
    BY <2>1 DEF Entry
<1>3. DataOf(s) = [i \in 1 .. Len(s) |-> s[i].data]
  BY <1>1 DEF DataOf
<1>4. DataOf(s) \in [1 .. Len(s) -> Payload]
  BY <1>2, <1>3
<1>5. DataOf(s) \in Seq(Payload)
  BY <1>1, <1>4, SeqDef
<1>6. Len(DataOf(s)) = Len(s)
  <2>1. DOMAIN DataOf(s) = 1 .. Len(DataOf(s)) /\ Len(DataOf(s)) \in Nat
    BY <1>5, LenProperties
  <2>2. 1 .. Len(DataOf(s)) = 1 .. Len(s)
    BY <1>3, <2>1
  <2>3. \A m, n \in Nat : (1 .. m = 1 .. n) => ~(m < n)
    <3> SUFFICES ASSUME NEW m \in Nat, NEW n \in Nat, m < n, n \in 1 .. m
                 PROVE  FALSE
      OBVIOUS
    <3>1. QED
      OBVIOUS
  <2>4. PICK m \in Nat : m = Len(DataOf(s))
    BY <2>1
  <2>5. PICK n \in Nat : n = Len(s)
    BY <1>1
  <2>6. ~(m < n) /\ ~(n < m)
    BY <2>2, <2>3, <2>4, <2>5
  <2>7. m = n
    BY <2>6
  <2>8. QED
    BY <2>4, <2>5, <2>7
<1>7. QED
  BY <1>3, <1>5, <1>6

(* The data of a sequence of blocks, when one is appended and when the     *)
(* first one is removed.                                                   *)
LEMMA DataOfAppend ==
  ASSUME NEW s \in Seq(Entry), NEW e \in Entry
  PROVE  DataOf(Append(s, e)) = Append(DataOf(s), e.data)
<1>1. /\ DataOf(s) \in Seq(Payload) /\ Len(DataOf(s)) = Len(s)
      /\ \A i \in 1 .. Len(s) : DataOf(s)[i] = s[i].data
  BY DataOfSeq
<1>2. /\ Append(s, e) \in Seq(Entry) /\ Len(Append(s, e)) = Len(s) + 1
      /\ \A i \in 1 .. Len(s) : Append(s, e)[i] = s[i]
      /\ Append(s, e)[Len(s) + 1] = e
  BY AppendProperties
<1>3. /\ DataOf(Append(s, e)) \in Seq(Payload)
      /\ Len(DataOf(Append(s, e))) = Len(s) + 1
      /\ \A i \in 1 .. Len(s) + 1 : DataOf(Append(s, e))[i] = Append(s, e)[i].data
  BY <1>2, DataOfSeq
<1>4. e.data \in Payload
  BY DEF Entry
<1>5. /\ Append(DataOf(s), e.data) \in Seq(Payload)
      /\ Len(Append(DataOf(s), e.data)) = Len(s) + 1
      /\ \A i \in 1 .. Len(s) : Append(DataOf(s), e.data)[i] = DataOf(s)[i]
      /\ Append(DataOf(s), e.data)[Len(s) + 1] = e.data
  BY <1>1, <1>4, AppendProperties
<1>6. \A i \in 1 .. Len(s) + 1 :
         DataOf(Append(s, e))[i] = Append(DataOf(s), e.data)[i]
  BY <1>1, <1>2, <1>3, <1>5
<1>7. QED
  BY <1>3, <1>5, <1>6, SeqEqual

(* The data of a sequence of blocks without its first one.                 *)
LEMMA DataOfTail ==
  ASSUME NEW s \in Seq(Entry), s # <<>>
  PROVE  /\ DataOf(s) # <<>>
         /\ Head(DataOf(s)) = s[1].data
         /\ DataOf(Tail(s)) = Tail(DataOf(s))
<1>1. /\ DataOf(s) \in Seq(Payload) /\ Len(DataOf(s)) = Len(s)
      /\ \A i \in 1 .. Len(s) : DataOf(s)[i] = s[i].data
  BY DataOfSeq
<1>2. Len(s) \in Nat /\ Len(s) > 0
  OBVIOUS
<1>3. DataOf(s) # <<>> /\ Head(DataOf(s)) = s[1].data
  BY <1>1, <1>2
<1>4. /\ Tail(s) \in Seq(Entry) /\ Len(Tail(s)) = Len(s) - 1
      /\ \A i \in 1 .. Len(s) - 1 : Tail(s)[i] = s[i + 1]
  BY HeadTailProperties
<1>5. /\ Tail(DataOf(s)) \in Seq(Payload) /\ Len(Tail(DataOf(s))) = Len(s) - 1
      /\ \A i \in 1 .. Len(s) - 1 : Tail(DataOf(s))[i] = DataOf(s)[i + 1]
  BY <1>1, <1>3, HeadTailProperties
<1>6. /\ DataOf(Tail(s)) \in Seq(Payload) /\ Len(DataOf(Tail(s))) = Len(s) - 1
      /\ \A i \in 1 .. Len(s) - 1 : DataOf(Tail(s))[i] = Tail(s)[i].data
  BY <1>4, DataOfSeq
<1>7. \A i \in 1 .. Len(s) - 1 : DataOf(Tail(s))[i] = Tail(DataOf(s))[i]
  BY <1>1, <1>2, <1>4, <1>5, <1>6
<1>8. QED
  BY <1>3, <1>5, <1>6, <1>7, SeqEqual

(* shmq_push and shmq_pop implement a FIFO channel whose message in use    *)
(* nobody but the consumer can change: Publish sends, Take receives, the   *)
(* next shmq_pop releases, and every other step is invisible.              *)
THEOREM RingImplementsFifo == Spec => ImplementsFifo
<1>1. Init => Fifo!Init
  BY DEF Init, Fifo!Init, DataOf, Working
<1>2. IInv /\ [Next]_vars => [Fifo!Next]_(Fifo!vars)
  <2> SUFFICES ASSUME IInv, [Next]_vars
               PROVE  Fifo!Next \/ UNCHANGED Fifo!vars
    OBVIOUS
  <2> DEFINE Stutter == UNCHANGED <<DataOf(pending), Working>>
  <2>1. Stutter => UNCHANGED Fifo!vars
    BY DEF Fifo!vars
  <2>2. CASE Publish
    <3>1. /\ pending \in Seq(Entry)
          /\ mb.data \in Payload /\ mb.length \in BlkSize .. PageSize
          /\ head + mb.length <= Length /\ head \in HeadSize .. Length
      BY <2>2 DEF IInv, TypeOK, Publish, ProducerInv
    <3>2. [pos |-> head, len |-> mb.length, data |-> mb.data] \in Entry
      BY <3>1 DEF Entry, Offsets
    <3>3. DataOf(pending') = Append(DataOf(pending), mb.data)
      BY <2>2, <3>1, <3>2, DataOfAppend DEF Publish
    <3>4. Working' = Working
      BY <2>2 DEF Publish, Working, cvars
    <3>5. Fifo!Send(mb.data)
      BY <3>3, <3>4 DEF Fifo!Send, DataOf
    <3>6. QED
      BY <3>1, <3>5 DEF Fifo!Next
  <2>3. CASE Take
    <3>1. /\ pending \in Seq(Entry) /\ pending # <<>> /\ tail # 0
          /\ mem[tail].data = pending[1].data
      BY <2>3, TakeFacts DEF Take, IInv, TypeOK, Offsets
    <3>2. Working' = pending[1].data
      BY <2>3, <3>1 DEF Take, Working
    <3>3. /\ DataOf(pending) # <<>>
          /\ Head(DataOf(pending)) = pending[1].data
          /\ DataOf(pending') = Tail(DataOf(pending))
      BY <2>3, <3>1, DataOfTail DEF Take
    <3>4. Fifo!Receive
      BY <3>2, <3>3 DEF Fifo!Receive, DataOf
    <3>5. QED
      BY <3>4 DEF Fifo!Next
  <2>4. CASE Pop
    <3>1. Fifo!Release
      BY <2>4 DEF Pop, Working, Fifo!Release, DataOf
    <3>2. QED
      BY <3>1 DEF Fifo!Next
  <2>5. CASE Copy \/ PadHead
    <3>1. Stutter
      BY <2>5, HeldKept DEF Copy, PadHead, cvars, Working, DataOf
    <3>2. QED
      BY <2>1, <3>1
  <2>6. CASE Rewrite
    <3>1. /\ mem' = Store(hold, BlkSize, [mem[hold] EXCEPT !.length = BlkSize])
          /\ pending' = pending /\ hold' = hold /\ hold # 0 /\ hold \in Offsets
          /\ mem[hold] \in Block
      BY <2>6 DEF Rewrite, cvars, IInv, TypeOK
    <3>2. mem'[hold] = [mem[hold] EXCEPT !.length = BlkSize]
      BY <3>1 DEF Store
    <3>3. mem'[hold].data = mem[hold].data
      BY <3>1, <3>2 DEF Block
    <3>4. Stutter
      BY <3>1, <3>3 DEF Working, DataOf
    <3>5. QED
      BY <2>1, <3>4
  <2>7. CASE \/ \E len \in Lens, d \in Payload : Push(len, d)
             \/ AlignHead \/ WrapHead \/ TestBehind \/ TestRoom
             \/ AlignTail \/ SkipTail \/ CheckEmpty \/ UNCHANGED vars
    <3>1. pending' = pending /\ hold' = hold /\ mem' = mem
      BY <2>7 DEF Push, AlignHead, WrapHead, TestBehind, TestRoom, AlignTail,
                  SkipTail, CheckEmpty, vars, cvars
    <3>2. Stutter
      BY <3>1 DEF Working, DataOf
    <3>3. QED
      BY <2>1, <3>2
  <2>8. QED
    BY <2>2, <2>3, <2>4, <2>5, <2>6, <2>7 DEF Next, Producer, Consumer
<1>3. QED
  BY <1>1, <1>2, Invariance, PTL DEF Spec, ImplementsFifo, Fifo!Spec
=============================================================================
