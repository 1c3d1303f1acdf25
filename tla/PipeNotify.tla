----------------------------- MODULE PipeNotify -----------------------------
(***************************************************************************)
(* How the parent and a worker wake each other up (net.c, service.c and    *)
(* the last lines of shmq_push in shmq.c).  Each of the two queues between *)
(* them has a non-blocking pipe: shmq_push publishes a block and then      *)
(* writes one byte, and the reader of the queue sleeps in epoll_wait on    *)
(* the other end of the pipe.                                              *)
(*                                                                         *)
(* Both processes run net_loop, with one difference that this module is    *)
(* about: the worker drains its pipe (handle_pipe_event) and then empties  *)
(* its queue (handle_recv_queue, at the end of net_loop); the parent       *)
(* empties its queue (handle_send_queue, right after epoll_wait) and then  *)
(* drains its pipe.  The worker's epoll_wait has a timeout, the parent's   *)
(* has none.                                                               *)
(*                                                                         *)
(* The queues are FIFO channels (ShmQueue is shown to implement that); as  *)
(* the blocks' contents do not matter here, a queue is its length.         *)
(***************************************************************************)
EXTENDS Integers

CONSTANTS QueueCap,    \* blocks a queue has room for
          PipeCap,     \* bytes a pipe has room for
          TrashSize,   \* bytes one read() of handle_pipe_event takes, 4096
          MaxPkts      \* bound: packets the clients ever send

ASSUME BoundAssumption ==
  /\ QueueCap \in Nat \ {0} /\ PipeCap \in Nat \ {0}
  /\ TrashSize \in Nat \ {0} /\ MaxPkts \in Nat

VARIABLES
  recvq, sendq,   \* blocks in the two queues
  rpipe, spipe,   \* bytes in their pipes
  ppc,            \* where the parent is in net_loop
  pev, pcl,       \* the batch of epoll_wait has a pipe event, a client event
  cpc, cev,       \* the same for the worker
  pkts            \* packets the clients may still send

pvars == <<ppc, pev, pcl, pkts>>
cvars == <<cpc, cev>>
vars  == <<recvq, sendq, rpipe, spipe, pvars, cvars>>

Init ==
  /\ recvq = 0 /\ sendq = 0 /\ rpipe = 0 /\ spipe = 0
  /\ ppc = "wait" /\ pev = FALSE /\ pcl = FALSE /\ pkts = MaxPkts
  /\ cpc = "wait" /\ cev = FALSE

(* Mutant of OneMore: the write does not fail on a full pipe. *)
OneMoreAlways(bytes) == bytes + 1

(* write() of one byte to a non-blocking pipe: a full pipe stays as it is. *)
OneMore(bytes) == IF bytes < PipeCap THEN bytes + 1 ELSE bytes

(* read() of at most TrashSize bytes. *)
AfterRead(bytes) == IF bytes < TrashSize THEN 0 ELSE bytes - TrashSize
-----------------------------------------------------------------------------
(***************************************************************************)
(* The parent: net_loop(-1, page_size, 1).                                 *)
(***************************************************************************)

(* epoll_wait returns, for the pipe (level-triggered), for a client, or    *)
(* for both.                                                               *)
ParentWake ==
  /\ ppc = "wait" /\ ppc' = "send"
  /\ pev' = (spipe > 0)
  /\ \E client \in BOOLEAN :
       /\ client => pkts > 0
       /\ client \/ spipe > 0
       /\ pcl' = client
       /\ pkts' = IF client THEN pkts - 1 ELSE pkts
  /\ UNCHANGED <<recvq, sendq, rpipe, spipe, cvars>>

(* handle_send_queue *)
ParentPop ==
  /\ ppc = "send"
  /\ \/ sendq > 0 /\ sendq' = sendq - 1 /\ UNCHANGED ppc
     \/ sendq = 0 /\ ppc' = "events" /\ UNCHANGED sendq
  /\ UNCHANGED <<recvq, rpipe, spipe, pev, pcl, pkts, cvars>>

(* handle_pipe_event reads until a read comes back short. *)
ParentDrain ==
  /\ ppc = "events" /\ pev
  /\ spipe' = AfterRead(spipe)
  /\ pev' = (spipe >= TrashSize)
  /\ UNCHANGED <<recvq, sendq, rpipe, ppc, pcl, pkts, cvars>>

(* net_recv pushes a packet to the worker; with no room the parent drops   *)
(* the connection instead, and do_del_conn pushes a CLOSE_BLOCK, which may *)
(* not find room either.                                                   *)
ParentRecv ==
  /\ ppc = "events" /\ pcl /\ pcl' = FALSE
  /\ \/ recvq < QueueCap /\ recvq' = recvq + 1 /\ ppc' = "notify"
     \/ recvq = QueueCap /\ ppc' = "close" /\ UNCHANGED recvq
  /\ UNCHANGED <<sendq, rpipe, spipe, pev, pkts, cvars>>

ParentClose ==
  /\ ppc = "close"
  /\ \/ recvq < QueueCap /\ recvq' = recvq + 1 /\ ppc' = "notify"
     \/ recvq = QueueCap /\ ppc' = "events" /\ UNCHANGED recvq
  /\ UNCHANGED <<sendq, rpipe, spipe, pev, pcl, pkts, cvars>>

(* Mutant of ParentNotify: the byte is not written. *)
ParentNotifyNobody ==
  /\ ppc = "notify" /\ ppc' = "events"
  /\ UNCHANGED <<recvq, sendq, rpipe, spipe, pev, pcl, pkts, cvars>>

ParentNotify ==
  /\ ppc = "notify" /\ ppc' = "events"
  /\ rpipe' = OneMore(rpipe)
  /\ UNCHANGED <<recvq, sendq, spipe, pev, pcl, pkts, cvars>>

ParentLoop ==
  /\ ppc = "events" /\ ~pev /\ ~pcl /\ ppc' = "wait"
  /\ UNCHANGED <<recvq, sendq, rpipe, spipe, pev, pcl, pkts, cvars>>

Parent == \/ ParentWake \/ ParentPop \/ ParentDrain
          \/ ParentRecv \/ ParentClose \/ ParentNotify \/ ParentLoop
-----------------------------------------------------------------------------
(***************************************************************************)
(* The worker: net_loop(timeout, page_size, 0).                            *)
(***************************************************************************)

ChildWake ==
  /\ cpc = "wait" /\ cpc' = "events"
  /\ cev' = (rpipe > 0)
  /\ UNCHANGED <<recvq, sendq, rpipe, spipe, pvars>>

ChildDrain ==
  /\ cpc = "events"
  /\ \/ cev /\ rpipe' = AfterRead(rpipe) /\ cev' = (rpipe >= TrashSize)
        /\ UNCHANGED cpc
     \/ ~cev /\ cpc' = "recv" /\ UNCHANGED <<rpipe, cev>>
  /\ UNCHANGED <<recvq, sendq, spipe, pvars>>

(* Mutant of ChildPop: one block per turn of the loop. *)
ChildPopOne ==
  /\ cpc = "recv"
  /\ recvq' = IF recvq > 0 THEN recvq - 1 ELSE recvq
  /\ cpc' = "wait"
  /\ UNCHANGED <<sendq, rpipe, spipe, cev, pvars>>

(* handle_recv_queue; the plugin may answer the packet. *)
ChildPop ==
  /\ cpc = "recv"
  /\ \/ recvq > 0 /\ recvq' = recvq - 1 /\ cpc' \in {"recv", "reply"}
     \/ recvq = 0 /\ cpc' = "wait" /\ UNCHANGED recvq
  /\ UNCHANGED <<sendq, rpipe, spipe, cev, pvars>>

(* send_pkg_to_client *)
ChildReply ==
  /\ cpc = "reply"
  /\ \/ sendq < QueueCap /\ sendq' = sendq + 1 /\ cpc' = "notify"
     \/ sendq = QueueCap /\ cpc' = "recv" /\ UNCHANGED sendq
  /\ UNCHANGED <<recvq, rpipe, spipe, cev, pvars>>

ChildNotify ==
  /\ cpc = "notify" /\ cpc' = "recv"
  /\ spipe' = OneMore(spipe)
  /\ UNCHANGED <<recvq, sendq, rpipe, cev, pvars>>

Child == ChildWake \/ ChildDrain \/ ChildPop \/ ChildReply \/ ChildNotify
-----------------------------------------------------------------------------
Next == Parent \/ Child

Spec == Init /\ [][Next]_vars

(* Each process keeps running while it has something to run.  The worker's *)
(* timeout is not relied on: it need not wake up with an empty pipe, and   *)
(* no client need ever send another packet.                                *)
FairSpec == /\ Spec
            /\ WF_vars(Parent /\ (ppc # "wait" \/ spipe > 0))
            /\ WF_vars(Child /\ (cpc # "wait" \/ rpipe > 0))
-----------------------------------------------------------------------------
(* Every variable has its type. *)
TypeOK ==
  /\ recvq \in 0 .. QueueCap /\ sendq \in 0 .. QueueCap
  /\ rpipe \in 0 .. PipeCap /\ spipe \in 0 .. PipeCap
  /\ ppc \in {"wait", "send", "events", "close", "notify"}
  /\ cpc \in {"wait", "events", "recv", "reply", "notify"}
  /\ pev \in BOOLEAN /\ pcl \in BOOLEAN /\ cev \in BOOLEAN
  /\ pkts \in 0 .. MaxPkts

(* A worker asleep in epoll_wait with a block in its queue has a byte in   *)
(* its pipe, or is about to get one (shmq.c:183-184): the order in which   *)
(* net_loop drains the worker's pipe (net.c:646) and empties its queue     *)
(* (net.c:613) loses no wake-up, whatever the pipe's size, and the worker  *)
(* does not depend on its timeout.                                         *)
WorkerIsWoken ==
  cpc = "wait" /\ recvq > 0 => rpipe > 0 \/ ppc = "notify"

(* Every block the parent pushes is handled, even if the timeout of the    *)
(* worker's epoll_wait never fires.                                        *)
PacketsAreHandled == recvq > 0 ~> recvq = 0

(* "The two processes notify each other through the pipes that there is    *)
(* data to handle or to send" (README.md:16): what the worker pushes is    *)
(* sent.                                                                   *)
RepliesAreSent == sendq > 0 ~> sendq = 0
=============================================================================
