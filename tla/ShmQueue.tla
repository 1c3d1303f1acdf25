------------------------------ MODULE ShmQueue ------------------------------
(***************************************************************************)
(* The shared-memory queue of src/src/shmq.c: a ring of variable-length    *)
(* blocks that one process writes (shmq_push) and another one reads        *)
(* (shmq_pop) without a lock.  The producer owns the offset head, the      *)
(* consumer owns the offset tail; each of them reads the other's offset    *)
(* from shared memory in the middle of its own operation, and every such   *)
(* read and every store to shared memory is a step of its own here.        *)
(*                                                                         *)
(* shmq_pop hands out a pointer into the ring and moves tail past the      *)
(* block BEFORE the caller uses it; handle_recv_queue (service.c) even     *)
(* rewrites the block in place.  The page_size slack that shmq_push keeps  *)
(* behind tail is all that protects the block.                             *)
(*                                                                         *)
(* The trailing write() of shmq_push to the notification pipe does not     *)
(* touch the ring; it is modelled in PipeNotify.                           *)
(***************************************************************************)
EXTENDS Integers, Sequences

CONSTANTS HeadSize,   \* sizeof (shm_head_t), 8 in the code
          BlkSize,    \* sizeof (shm_block_t), 13 in the code
          PageSize,   \* page_size
          Length,     \* q->length, the size of the mapping
          MaxTries,   \* attempts to find room before a push gives up, 10
          Lens,       \* the block lengths the callers of shmq_push ask for
          Payload,    \* what a block carries
          Garbled     \* data that has been overwritten

ASSUME SizeAssumption ==
  /\ HeadSize \in Nat \ {0}
  /\ BlkSize \in Nat \ {0}
  /\ PageSize \in Nat /\ BlkSize <= PageSize
  /\ Length \in Nat /\ HeadSize + PageSize <= Length
  /\ MaxTries \in Nat \ {0}

(* assert(mb->length >= sizeof(shm_block_t)), an obligation of the callers *)
ASSUME LensAssumption == Lens \subseteq {n \in Nat : n >= BlkSize}

ASSUME GarbledAssumption == Garbled \notin Payload

VARIABLES
  head, tail,   \* q->addr->head and q->addr->tail
  mem,          \* the block header a reader would find at each offset
  ppc,          \* where the producer is inside shmq_push
  mb,           \* the block being pushed, Junk outside shmq_push
  cnt,          \* attempts made by the loop that waits for room
  cpc,          \* where the consumer is inside shmq_pop
  hold,         \* offset of the popped block the consumer works on, 0 if none
  pending,      \* history: the published blocks not yet popped, in order
  seam          \* history: where the producer last wrapped and the consumer
                \* has not followed yet, 0 if it has

pvars == <<ppc, mb, cnt>>
cvars == <<cpc, hold>>
vars  == <<head, tail, mem, pvars, cvars, pending, seam>>

Offsets == HeadSize .. Length - 1

(***************************************************************************)
(* A block is its header and its data.  JUNK stands for bytes that are not *)
(* a block header: fresh pages of the mapping, or the data of some other   *)
(* block.                                                                  *)
(***************************************************************************)
Data  == Payload \cup {Garbled}
Block == [type : {"BLOCK", "PAD", "JUNK"}, length : Nat, data : Data]
Junk  == [type |-> "JUNK", length |-> 0, data |-> Garbled]

(***************************************************************************)
(* Memory after blk is stored at offset p by a write of n bytes: a header  *)
(* the write overlaps is lost, and a block whose header survives but whose *)
(* data it overlaps keeps only its header.                                 *)
(***************************************************************************)
Store(p, n, blk) ==
  [q \in Offsets |->
     IF q = p THEN blk
     ELSE IF q + BlkSize > p /\ p + n > q THEN Junk
     ELSE IF q + mem[q].length > p /\ p > q
          THEN [mem[q] EXCEPT !.data = Garbled]
     ELSE mem[q]]

Init ==
  /\ head = HeadSize /\ tail = HeadSize
  /\ mem = [q \in Offsets |-> Junk]
  /\ ppc = "idle" /\ mb = Junk /\ cnt = 0
  /\ cpc = "idle" /\ hold = 0
  /\ pending = <<>> /\ seam = 0
-----------------------------------------------------------------------------
(***************************************************************************)
(* shmq_push                                                               *)
(***************************************************************************)

(* Mutant of Push: no limit on the size of a block. *)
PushUnlimited(len, d) ==
  /\ ppc = "idle"
  /\ ppc' = "align"
  /\ mb' = [type |-> "BLOCK", length |-> len, data |-> d]
  /\ UNCHANGED <<head, tail, mem, cnt, cvars, pending, seam>>

(* The call; a block larger than page_size is refused at once. *)
Push(len, d) ==
  /\ ppc = "idle"
  /\ \/ len > PageSize /\ UNCHANGED pvars
     \/ /\ len <= PageSize
        /\ ppc' = "align"
        /\ mb' = [type |-> "BLOCK", length |-> len, data |-> d]
        /\ UNCHANGED cnt
  /\ UNCHANGED <<head, tail, mem, cvars, pending, seam>>

Surplus == Length - head

(* shmq_push is over. *)
Return == ppc' = "idle" /\ mb' = Junk /\ cnt' = 0

(* align_queue_head reads tail; with no room before the end of the mapping *)
(* and tail still at the start, the process exits.                         *)
AlignHead ==
  /\ ppc = "align"
  /\ ppc' = CASE Surplus >= mb.length -> "room"
              [] Surplus < mb.length /\ tail = HeadSize -> "exited"
              [] OTHER -> "pad"
  /\ UNCHANGED <<head, tail, mem, mb, cnt, cvars, pending, seam>>

(* Mutant of PadHead: no pad when the header would fill the rest exactly.  *)
PadHeadOffByOne ==
  /\ ppc = "pad"
  /\ ppc' = "wrap"
  /\ tail' = IF tail > head THEN HeadSize ELSE tail
  /\ mem' = IF tail > head \/ Surplus <= BlkSize THEN mem
            ELSE Store(head, BlkSize,
                       [type |-> "PAD", length |-> Surplus, data |-> Garbled])
  /\ UNCHANGED <<head, mb, cnt, cvars, pending, seam>>

(* The second read of tail: either the branch marked "should be            *)
(* impossible", which starts by resetting the consumer's own offset, or    *)
(* the rest of the mapping becomes a pad block when a header fits in it.   *)
PadHead ==
  /\ ppc = "pad"
  /\ ppc' = "wrap"
  /\ tail' = IF tail > head THEN HeadSize ELSE tail
  /\ mem' = IF tail > head \/ Surplus < BlkSize THEN mem
            ELSE Store(head, BlkSize,
                       [type |-> "PAD", length |-> Surplus, data |-> Garbled])
  /\ UNCHANGED <<head, mb, cnt, cvars, pending, seam>>

WrapHead ==
  /\ ppc = "wrap"
  /\ ppc' = "room"
  /\ head' = HeadSize
  /\ seam' = head
  /\ UNCHANGED <<tail, mem, mb, cnt, cvars, pending>>

(* The loop that waits for room reads tail twice. *)
Behind == tail > head

(* Mutant of NoRoom: no slack for the block the consumer works on. *)
NoRoomWithoutSlack == tail < head + mb.length

NoRoom == tail < head + mb.length + PageSize

TestBehind ==
  /\ ppc = "room"
  /\ ppc' = IF Behind THEN "room2" ELSE "copy"
  /\ UNCHANGED <<head, tail, mem, mb, cnt, cvars, pending, seam>>

(* Mutant of TestRoom: the attempts are not counted. *)
TestRoomUncounted ==
  /\ ppc = "room2"
  /\ \/ ~NoRoom /\ ppc' = "copy" /\ UNCHANGED <<mb, cnt>>
     \/ NoRoom /\ ppc' = "room" /\ UNCHANGED <<mb, cnt>>
  /\ UNCHANGED <<head, tail, mem, cvars, pending, seam>>

TestRoom ==
  /\ ppc = "room2"
  /\ \/ ~NoRoom /\ ppc' = "copy" /\ UNCHANGED <<mb, cnt>>
     \/ NoRoom /\ cnt + 1 = MaxTries /\ Return               \* return -1
     \/ /\ NoRoom /\ cnt + 1 < MaxTries
        /\ ppc' = "room" /\ cnt' = cnt + 1 /\ UNCHANGED mb    \* usleep(5)
  /\ UNCHANGED <<head, tail, mem, cvars, pending, seam>>

Copy ==
  /\ ppc = "copy"
  /\ ppc' = "publish"
  /\ mem' = Store(head, mb.length, mb)
  /\ UNCHANGED <<head, tail, mb, cnt, cvars, pending, seam>>

Publish ==
  /\ ppc = "publish"
  /\ Return
  /\ head' = head + mb.length
  /\ pending' = Append(pending,
                       [pos |-> head, len |-> mb.length, data |-> mb.data])
  /\ UNCHANGED <<tail, mem, cvars, seam>>

Producer ==
  \/ \E len \in Lens, d \in Payload : Push(len, d)
  \/ AlignHead \/ PadHead \/ WrapHead
  \/ TestBehind \/ TestRoom \/ Copy \/ Publish
-----------------------------------------------------------------------------
(***************************************************************************)
(* shmq_pop                                                                *)
(***************************************************************************)

(* The call: the caller is done with the block it held. *)
Pop ==
  /\ cpc = "idle"
  /\ hold' = 0
  /\ cpc' = IF tail = head THEN "idle" ELSE "align"
  /\ UNCHANGED <<head, tail, mem, pvars, pending, seam>>

(* align_queue_tail: nothing to skip unless the producer has wrapped. *)
AlignTail ==
  /\ cpc = "align"
  /\ cpc' = IF head >= tail THEN "check" ELSE "skip"
  /\ UNCHANGED <<head, tail, mem, pvars, hold, pending, seam>>

AtSeam == Length - tail < BlkSize \/ mem[tail].type = "PAD"

(* Mutant of SkipTail: the wrap goes to offset 0, over the queue's head.  *)
SkipTailToZero ==
  /\ cpc = "skip"
  /\ cpc' = "check"
  /\ tail' = IF AtSeam THEN 0 ELSE tail
  /\ seam' = IF AtSeam THEN 0 ELSE seam
  /\ UNCHANGED <<head, mem, pvars, hold, pending>>

SkipTail ==
  /\ cpc = "skip"
  /\ cpc' = "check"
  /\ tail' = IF AtSeam THEN HeadSize ELSE tail
  /\ seam' = IF AtSeam THEN 0 ELSE seam
  /\ UNCHANGED <<head, mem, pvars, hold, pending>>

CheckEmpty ==
  /\ cpc = "check"
  /\ cpc' = IF tail = head THEN "idle" ELSE "take"
  /\ UNCHANGED <<head, tail, mem, pvars, hold, pending, seam>>

Take ==
  /\ cpc = "take"
  /\ cpc' = "idle"
  /\ hold' = tail
  /\ tail' = tail + mem[tail].length
  /\ pending' = Tail(pending)
  /\ UNCHANGED <<head, mem, pvars, seam>>

(* handle_recv_queue turns a refused OPEN_BLOCK, which carries data, into  *)
(* a bare FIN_BLOCK in place: the consumer writes to a block that tail has *)
(* already passed.                                                         *)
Rewrite ==
  /\ cpc = "idle" /\ hold # 0
  /\ mem[hold].length > BlkSize
  /\ mem' = Store(hold, BlkSize, [mem[hold] EXCEPT !.length = BlkSize])
  /\ UNCHANGED <<head, tail, pvars, cvars, pending, seam>>

Consumer == Pop \/ AlignTail \/ SkipTail \/ CheckEmpty \/ Take \/ Rewrite
-----------------------------------------------------------------------------
Next == Producer \/ Consumer

Spec == Init /\ [][Next]_vars

(* The producer does not stop in the middle of a call; the consumer may    *)
(* stop anywhere.                                                          *)
FairSpec == Spec /\ WF_vars(Producer /\ ppc # "idle")
-----------------------------------------------------------------------------
(***************************************************************************)
(* Properties                                                              *)
(***************************************************************************)

Entry == [pos : Offsets, len : Nat, data : Payload]

(* Every variable has its type; the offsets stay inside the mapping.       *)
TypeOK ==
  /\ head \in HeadSize .. Length /\ tail \in HeadSize .. Length
  /\ mem \in [Offsets -> Block]
  /\ ppc \in {"idle", "align", "pad", "wrap", "room", "room2", "copy",
              "publish", "exited"}
  /\ mb \in Block
  /\ cnt \in 0 .. MaxTries - 1
  /\ cpc \in {"idle", "align", "skip", "check", "take"}
  /\ hold \in {0} \cup Offsets
  /\ pending \in Seq(Entry)
  /\ seam \in {0} \cup HeadSize .. Length

(* The bytes the producer's next step stores to. *)
Writing ==
  CASE ppc = "copy" -> head .. head + mb.length - 1
    [] ppc = "pad" /\ tail <= head /\ Surplus >= BlkSize
         -> head .. head + BlkSize - 1
    [] OTHER -> {}

(* The bytes of the block the consumer works on, which is the one just     *)
(* before tail, and of the published blocks it has not popped yet.         *)
Held   == IF hold = 0 THEN {} ELSE hold .. tail - 1
Unread == UNION {pending[i].pos .. pending[i].pos + pending[i].len - 1 :
                   i \in DOMAIN pending}

(* shmq_push (shmq.c:157-181) stores only inside the mapping, and never    *)
(* over a block that is still unread or that the consumer, having already  *)
(* advanced tail past it, is still working on.                             *)
WritesAreSafe == Writing \subseteq Offsets \ (Held \cup Unread)

(* Wherever shmq_pop (shmq.c:64-140) interprets the bytes at tail as a     *)
(* block header, a header is there: a block or a pad when it looks for the *)
(* wrap, and the oldest unread block when it takes one.                    *)
ReadsAreBlocks ==
  /\ cpc = "skip" /\ Length - tail >= BlkSize => mem[tail].type # "JUNK"
  /\ cpc = "take" => /\ pending # <<>>
                     /\ mem[tail] = [type   |-> "BLOCK",
                                     length |-> Head(pending).len,
                                     data   |-> Head(pending).data]

(* "The parent moves the head pointer and the child the tail pointer, so   *)
(* no lock is needed" (README.md:10): a step of shmq_push never moves      *)
(* tail, that is, the branch of align_queue_head marked "should be         *)
(* impossible" (shmq.c:95-103) is.                                         *)
OnlyConsumerMovesTail == [][tail' # tail => cpc' # cpc]_vars

(* The ring implements a FIFO channel; what the consumer works on is read  *)
(* off the shared memory.                                                  *)
DataOf(s) == [i \in DOMAIN s |-> s[i].data]
Working   == IF hold = 0 THEN Garbled ELSE mem[hold].data

Fifo == INSTANCE FifoChannel WITH chan    <- DataOf(pending),
                                  got     <- Working,
                                  Nothing <- Garbled

(* shmq_push and shmq_pop deliver every published block exactly once, in   *)
(* order and unchanged, and the block stays unchanged until the consumer   *)
(* calls shmq_pop again, whatever the other process does meanwhile.        *)
ImplementsFifo == Fifo!Spec

(* A push returns, or ends the process, whatever the consumer does: it     *)
(* tries for room a bounded number of times (shmq.c:162-175).              *)
PushReturns == ppc # "idle" ~> ppc \in {"idle", "exited"}
-----------------------------------------------------------------------------
(***************************************************************************)
(* The inductive invariant.  seam # 0 says that the producer has wrapped   *)
(* and the consumer has not: the unread blocks are then an upper run, from *)
(* tail to seam, followed by a lower run, from HeadSize to head.           *)
(***************************************************************************)
End(i)  == pending[i].pos + pending[i].len
Succ(e) == IF seam # 0 /\ e = seam THEN HeadSize ELSE e

(* Where the offsets may be with respect to each other. *)
OffsetInv ==
  /\ seam = 0 => tail <= head
  /\ seam # 0 => /\ head < tail /\ tail <= seam
                 /\ head = HeadSize \/ head + PageSize <= tail
                 /\ seam <= Length
                 /\ Length - seam < BlkSize \/ mem[seam].type = "PAD"

(* The unread blocks are in memory, inside their run, one after the other. *)
RunInv ==
  /\ \A i \in 1 .. Len(pending) :
       /\ pending[i].len \in BlkSize .. PageSize
       /\ mem[pending[i].pos] = [type |-> "BLOCK", length |-> pending[i].len,
                                 data |-> pending[i].data]
       /\ \/ tail <= pending[i].pos /\ End(i) <= (IF seam = 0 THEN head ELSE seam)
          \/ seam # 0 /\ End(i) <= head
  /\ \A i, j \in 1 .. Len(pending) :
       i < j => \/ End(i) <= pending[j].pos
                \/ seam # 0 /\ tail <= pending[i].pos /\ End(j) <= head

(* Following the blocks from tail leads to head. *)
ChainInv ==
  /\ Len(pending) = 0 => head = Succ(tail)
  /\ Len(pending) > 0 => /\ pending[1].pos = Succ(tail)
                         /\ head = Succ(End(Len(pending)))
  /\ \A i \in 1 .. Len(pending) - 1 : pending[i + 1].pos = Succ(End(i))

(* What the producer knows at each point of shmq_push. *)
ProducerInv ==
  /\ ppc \in {"align", "pad", "wrap", "room", "room2", "copy", "publish"}
       => /\ mb.type = "BLOCK" /\ mb.data \in Payload
          /\ mb.length \in BlkSize .. PageSize
  /\ ppc \in {"pad", "wrap"}
       => seam = 0 /\ HeadSize < tail /\ head + mb.length > Length
  /\ ppc = "wrap" => Surplus < BlkSize \/ mem[head].type = "PAD"
  /\ ppc \in {"room", "room2", "copy", "publish"} => head + mb.length <= Length
  /\ ppc \in {"copy", "publish"} /\ tail > head
       => head + mb.length + PageSize <= tail
  /\ ppc = "publish" => mem[head] = mb

(* What the consumer knows at each point of shmq_pop, and about the block  *)
(* it works on.                                                            *)
ConsumerInv ==
  /\ cpc = "align" => tail # head
  /\ cpc = "skip" => seam # 0
  /\ cpc = "check" => \/ Len(pending) > 0 /\ tail # seam
                      \/ Len(pending) = 0 /\ tail = HeadSize /\ head = HeadSize
  /\ cpc = "take" => Len(pending) > 0 /\ tail # seam
  /\ cpc # "idle" => hold = 0
  /\ hold # 0 => /\ hold + BlkSize <= tail /\ tail <= hold + PageSize
                 /\ mem[hold].type = "BLOCK" /\ mem[hold].data \in Payload
                 /\ hold + mem[hold].length <= tail

IInv == TypeOK /\ OffsetInv /\ RunInv /\ ChainInv /\ ProducerInv /\ ConsumerInv
=============================================================================
