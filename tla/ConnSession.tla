---------------------------- MODULE ConnSession ----------------------------
(***************************************************************************)
(* The life of a client connection in its two processes: the parent, which *)
(* owns the socket (net.c), and the worker, which owns the session         *)
(* (service.c, net_if.c).  They agree on it only through the blocks they   *)
(* send each other: OPEN, DATA and CLOSE in the receive queue, DATA and    *)
(* FIN in the send queue.  Either side may end the connection at any time, *)
(* descriptors are reused at once, a full queue drops blocks, the events   *)
(* of a batch of epoll_wait may be stale when they are handled, and the    *)
(* worker may crash and be restarted.                                      *)
(*                                                                         *)
(* The queues are FIFO channels (see ShmQueue), bounded; that a process    *)
(* with work in its queue wakes up is taken for granted here and examined  *)
(* in PipeNotify.  One bind entry, that is one worker, is modelled: the    *)
(* workers share no queue and no session.                                  *)
(***************************************************************************)
EXTENDS Integers, Sequences, FiniteSets, Functions

CONSTANTS Fds,           \* descriptors a client connection may get
          Cap,           \* blocks a queue has room for
          MaxConns,      \* bound: connections the clients ever make
          MaxPkts,       \* bound: packets the clients ever send
          MaxCrashes,    \* bound: crashes of the worker
          MaxRestarts,   \* restarts of the worker, 20
          IdleTimeout,   \* cli_socket_timeout is set
          AcceptErrors   \* accept fails not only for a lack of descriptors

ASSUME FdsAssumption == Fds \subseteq Nat \ {0} /\ IsFiniteSet(Fds)
ASSUME BoundsAssumption ==
  /\ Cap \in Nat /\ MaxConns \in Nat /\ MaxPkts \in Nat
  /\ MaxCrashes \in Nat /\ MaxRestarts \in Nat
  /\ IdleTimeout \in BOOLEAN /\ AcceptErrors \in BOOLEAN

VARIABLES
  (* the parent *)
  fds,       \* epi.fds: the type and the id of each entry
  seq,       \* the last id given out by do_add_conn
  closeq,    \* the close queue (flag CN_NEED_CLOSE)
  etin,      \* the listening socket is in the etin queue
  ppc,       \* where it is in net_loop
  evs,       \* the events of the batch that are not handled yet
  lev, hev,  \* the batch has an event of the listening socket, a hang-up
             \* of the worker's pipe
  cur, buf,  \* the connection net_recv works on, packets in its buffer
  restarts,  \* restart_cnt
  (* the worker *)
  alive,     \* it is running
  sess,      \* fds.cn: the id of the session of a descriptor, 0 if none
  count,     \* fds.count
  fin,       \* the descriptor whose packet the plugin refused, 0 if none
  (* shared *)
  recvq, sendq,
  (* the clients and the kernel *)
  sock,      \* the socket of each descriptor
  backlog,   \* connections waiting to be accepted
  lrdy,      \* the edge of the listening socket: "none", "ready" to be
             \* reported, "lost" when an accept failed since
  hup,       \* the pipe of a dead worker is in the epoll set
  dials, sends, crashes   \* what the environment may still do

ptable == <<fds, closeq>>
ploop  == <<ppc, evs, lev, hev, cur, buf>>
pvars  == <<ptable, ploop, seq, etin, restarts>>
cvars  == <<alive, sess, count, fin>>
evars  == <<backlog, lrdy, hup, dials, sends, crashes>>
vars   == <<pvars, cvars, recvq, sendq, sock, evars>>

(* A block; src is history: the connection whose packet it stems from. *)
Block(type, fd, id, src) == [type |-> type, fd |-> fd, id |-> id, src |-> src]

(* A socket: how its peer is, the packets to read, the edges to report. *)
NoSock == [peer |-> "none", pkts |-> 0, rdy |-> {}]

Init ==
  /\ fds = [fd \in Fds |-> [type |-> "unused", id |-> 0]]
  /\ closeq = {} /\ etin = FALSE /\ seq = 0 /\ restarts = 0
  /\ ppc = "close" /\ evs = [fd \in Fds |-> {}] /\ lev = FALSE /\ hev = FALSE
  /\ cur = 0 /\ buf = 0
  /\ alive = TRUE /\ sess = [fd \in Fds |-> 0] /\ count = 0 /\ fin = 0
  /\ recvq = <<>> /\ sendq = <<>>
  /\ sock = [fd \in Fds |-> NoSock]
  /\ backlog = 0 /\ lrdy = "none" /\ hup = FALSE
  /\ dials = MaxConns /\ sends = MaxPkts /\ crashes = MaxCrashes

(* shmq_push when the caller does not look at what it returns. *)
Pushed(q, b) == IF Len(q) < Cap THEN Append(q, b) ELSE q
-----------------------------------------------------------------------------
(***************************************************************************)
(* The clients and the kernel.                                             *)
(***************************************************************************)
Connect ==
  /\ dials > 0 /\ dials' = dials - 1
  /\ backlog' = backlog + 1 /\ lrdy' = "ready"
  /\ UNCHANGED <<pvars, cvars, recvq, sendq, sock, hup, sends, crashes>>

(* What arrives raises an edge, also when an earlier one is not reported. *)
Arrives(fd, s, edges) ==
  sock' = [sock EXCEPT ![fd] = [s EXCEPT !.rdy = @ \cup edges]]

ClientSend(fd) ==
  /\ sends > 0 /\ sends' = sends - 1
  /\ sock[fd].peer = "open"
  /\ Arrives(fd, [sock[fd] EXCEPT !.pkts = @ + 1], {"in"})
  /\ UNCHANGED <<pvars, cvars, recvq, sendq, backlog, lrdy, hup, dials, crashes>>

ClientClose(fd) ==
  /\ sock[fd].peer = "open"
  /\ Arrives(fd, [sock[fd] EXCEPT !.peer = "closed"], {"in"})
  /\ UNCHANGED <<pvars, cvars, recvq, sendq, evars>>

ClientReset(fd) ==
  /\ sock[fd].peer \in {"open", "closed"}
  /\ Arrives(fd, [sock[fd] EXCEPT !.peer = "reset"], {"in", "hup"})
  /\ UNCHANGED <<pvars, cvars, recvq, sendq, evars>>

WorkerCrash ==
  /\ alive /\ crashes > 0
  /\ crashes' = crashes - 1 /\ alive' = FALSE /\ hup' = TRUE
  /\ UNCHANGED <<pvars, sess, count, fin, recvq, sendq, sock, backlog, lrdy,
                 dials, sends>>

Environment ==
  \/ Connect \/ WorkerCrash
  \/ \E fd \in Fds : ClientSend(fd) \/ ClientClose(fd) \/ ClientReset(fd)
-----------------------------------------------------------------------------
(***************************************************************************)
(* The parent.                                                             *)
(***************************************************************************)

(* do_del_conn for a set of connections; DelTelling is its mode 1, which   *)
(* pushes a CLOSE_BLOCK, and does not look at what the push returns.       *)
Del(gone) ==
  /\ fds' = [fd \in Fds |->
               IF fd \in gone THEN [fds[fd] EXCEPT !.type = "unused"]
                              ELSE fds[fd]]
  /\ closeq' = closeq \ gone
  /\ sock' = [fd \in Fds |-> IF fd \in gone THEN NoSock ELSE sock[fd]]

(* Mutant of DelTelling: the worker is not told. *)
DelSilent(fd) == Del({fd}) /\ UNCHANGED recvq

DelTelling(fd) ==
  /\ Del({fd})
  /\ recvq' = Pushed(recvq, Block("CLOSE", fd, fds[fd].id, 0))

(* Where iterate_etin_queue starts: at the listening socket or at nothing. *)
EtinQueue == IF etin THEN "etin" ELSE "wait"

(* iterate_close_queue, mode 2 *)
IterateClose ==
  /\ ppc = "close" /\ ppc' = EtinQueue
  /\ Del(closeq)
  /\ UNCHANGED <<evs, lev, hev, cur, buf, seq, etin, restarts, cvars, recvq,
                 sendq, evars>>

(* epoll_wait: all the edges there are. *)
EpollWait ==
  /\ ppc = "wait" /\ ppc' = "send"
  /\ lrdy = "ready" \/ hup \/ sendq # <<>> \/ \E fd \in Fds : sock[fd].rdy # {}
  /\ evs' = [fd \in Fds |-> sock[fd].rdy]
  /\ lev' = (lrdy = "ready") /\ hev' = hup
  /\ sock' = [fd \in Fds |-> [sock[fd] EXCEPT !.rdy = {}]]
  /\ lrdy' = IF lrdy = "ready" THEN "none" ELSE lrdy
  /\ UNCHANGED <<ptable, cur, buf, seq, etin, restarts, cvars, recvq, sendq,
                 backlog, hup, dials, sends, crashes>>

(* Mutant of Deliverable: the descriptor alone decides. *)
DeliverableByFd(b) == fds[b.fd].type = "remote"

(* The test of schedule_output. *)
Deliverable(b) == fds[b.fd].type = "remote" /\ fds[b.fd].id = b.id

CloseLater(fd) == closeq' = closeq \cup {fd}

(* handle_send_queue and schedule_output, one block.  net_send fails when  *)
(* the peer has reset the connection; what the socket does not take at     *)
(* once it keeps, and the connection lives on.                             *)
SendQueue ==
  /\ ppc = "send" /\ sendq # <<>> /\ sendq' = Tail(sendq)
  /\ LET b == Head(sendq) IN
     \/ ~Deliverable(b) /\ UNCHANGED <<ptable, recvq, sock>>
     \/ /\ Deliverable(b) /\ b.type = "FIN" /\ CloseLater(b.fd)
        /\ UNCHANGED <<fds, recvq, sock>>
     \/ /\ Deliverable(b) /\ b.type = "DATA" /\ sock[b.fd].peer = "reset"
        /\ DelTelling(b.fd)
     \/ /\ Deliverable(b) /\ b.type = "DATA" /\ sock[b.fd].peer # "reset"
        /\ UNCHANGED <<ptable, recvq, sock>>
  /\ UNCHANGED <<ploop, seq, etin, restarts, cvars, evars>>

SendQueueEmpty ==
  /\ ppc = "send" /\ sendq = <<>> /\ ppc' = "events"
  /\ UNCHANGED <<ptable, evs, lev, hev, cur, buf, seq, etin, restarts, cvars,
                 recvq, sendq, sock, evars>>

(***************************************************************************)
(* One turn of the loop over the batch, for a client connection: the entry *)
(* may have been deleted, and even reused, since epoll_wait.  A read takes *)
(* all there is, once.                                                     *)
(***************************************************************************)
Handled(fd) == evs' = [evs EXCEPT ![fd] = {}]

SkipEvent(fd) ==
  /\ fds[fd].type = "unused" /\ Handled(fd)
  /\ UNCHANGED <<ptable, ppc, cur, buf, recvq, sock>>

ReadPackets(fd) ==
  /\ fds[fd].type = "remote" /\ sock[fd].pkts > 0
  /\ ppc' = "parse" /\ cur' = fd /\ buf' = sock[fd].pkts
  /\ sock' = [sock EXCEPT ![fd].pkts = 0]
  /\ UNCHANGED <<ptable, evs, recvq>>

(* Mutant of Gone: an end of file is not told from nothing to read. *)
GoneByHup(fd) == "hup" \in evs[fd]

(* End of file, or a hang-up with nothing to read. *)
Gone(fd) == sock[fd].peer = "closed" \/ "hup" \in evs[fd]

ReadEof(fd) ==
  /\ fds[fd].type = "remote" /\ sock[fd].pkts = 0 /\ Gone(fd)
  /\ DelTelling(fd) /\ Handled(fd)
  /\ UNCHANGED <<ppc, cur, buf>>

(* EAGAIN *)
ReadNothing(fd) ==
  /\ fds[fd].type = "remote" /\ sock[fd].pkts = 0 /\ ~Gone(fd) /\ Handled(fd)
  /\ UNCHANGED <<ptable, ppc, cur, buf, recvq, sock>>

HandleConn(fd) ==
  /\ ppc = "events" /\ evs[fd] # {}
  /\ SkipEvent(fd) \/ ReadPackets(fd) \/ ReadEof(fd) \/ ReadNothing(fd)
  /\ UNCHANGED <<lev, hev, seq, etin, restarts, cvars, sendq, evars>>

(* The rest of net_recv: it pushes the packets one by one, and fails when  *)
(* a push does; then the hang-up, if any.                                  *)
ParsePacket ==
  /\ ppc = "parse"
  /\ \/ /\ buf > 0 /\ Len(recvq) < Cap
        /\ recvq' = Append(recvq, Block("DATA", cur, fds[cur].id, fds[cur].id))
        /\ buf' = buf - 1
        /\ UNCHANGED <<ptable, ppc, evs, cur, sock>>
     \/ /\ IF buf > 0 THEN Len(recvq) = Cap ELSE "hup" \in evs[cur]
        /\ ppc' = "gone"
        /\ UNCHANGED <<ptable, evs, cur, buf, recvq, sock>>
     \/ /\ buf = 0 /\ "hup" \notin evs[cur]
        /\ ppc' = "events" /\ cur' = 0 /\ Handled(cur)
        /\ UNCHANGED <<ptable, buf, recvq, sock>>
  /\ UNCHANGED <<lev, hev, seq, etin, restarts, cvars, sendq, evars>>

(* do_del_conn then: since the push that failed, the worker may have made  *)
(* room for the CLOSE_BLOCK.                                               *)
GiveUp ==
  /\ ppc = "gone" /\ ppc' = "events"
  /\ DelTelling(cur)
  /\ buf' = 0 /\ cur' = 0 /\ Handled(cur)
  /\ UNCHANGED <<lev, hev, seq, etin, restarts, cvars, sendq, evars>>

HandleListen ==
  /\ ppc = "events" /\ lev /\ lev' = FALSE /\ ppc' = "listen"
  /\ UNCHANGED <<ptable, evs, hev, cur, buf, seq, etin, restarts, cvars, recvq,
                 sendq, sock, evars>>

Free == {fd \in Fds : fds[fd].type = "unused"}

(* do_add_conn; a connection that is deleted at once leaves its id behind. *)
AddConn(fd, type) ==
  /\ seq' = seq + 1
  /\ fds' = [fds EXCEPT ![fd] = [type |-> type, id |-> seq + 1]]

(* do_open_conn, from iterate_etin_queue or from the batch: accept gives   *)
(* the lowest free descriptor.                                             *)
Accept ==
  /\ ppc \in {"etin", "listen"} /\ Free # {} /\ backlog > 0
  /\ backlog' = backlog - 1
  /\ LET fd == CHOOSE f \in Free : \A other \in Free : f <= other
         ok == Len(recvq) < Cap IN
     /\ recvq' = Pushed(recvq, Block("OPEN", fd, seq + 1, 0))
     /\ AddConn(fd, IF ok THEN "remote" ELSE "unused")
     /\ sock' = IF ok THEN [sock EXCEPT ![fd].peer = "open"] ELSE sock
  /\ UNCHANGED <<closeq, ploop, etin, restarts, cvars, sendq, lrdy, hup, dials,
                 sends, crashes>>

(* Mutant of AcceptEnds: nothing is done about EMFILE. *)
AcceptForgets ==
  /\ ppc \in {"etin", "listen"} /\ (Free = {} \/ backlog = 0)
  /\ etin' = IF Free = {} THEN etin ELSE FALSE
  /\ ppc' = IF ppc = "etin" THEN "wait" ELSE "events"
  /\ UNCHANGED <<ptable, evs, lev, hev, cur, buf, seq, restarts, cvars, recvq,
                 sendq, sock, evars>>

(* EMFILE: the listening socket is tried again at the next turn; EAGAIN.   *)
AcceptEnds ==
  /\ ppc \in {"etin", "listen"} /\ (Free = {} \/ backlog = 0)
  /\ etin' = (Free = {})
  /\ ppc' = IF ppc = "etin" THEN "wait" ELSE "events"
  /\ UNCHANGED <<ptable, evs, lev, hev, cur, buf, seq, restarts, cvars, recvq,
                 sendq, sock, evars>>

(* accept fails in another way, or set_io_blockability does: do_open_conn  *)
(* has no branch for it, and who else waits needs another edge.            *)
AcceptFails ==
  /\ AcceptErrors
  /\ ppc \in {"etin", "listen"} /\ Free # {} /\ backlog > 0
  /\ backlog' \in {backlog, backlog - 1}
  /\ lrdy' = IF lrdy = "ready" THEN lrdy ELSE "lost"
  /\ ppc' = IF ppc = "etin" THEN "wait" ELSE "events"
  /\ UNCHANGED <<ptable, evs, lev, hev, cur, buf, seq, etin, restarts, cvars,
                 recvq, sendq, sock, hup, dials, sends, crashes>>

(* The receive queue after do_del_conn, in mode 1, of every connection in  *)
(* the order of the descriptors.                                           *)
AllToldFrom(q) ==
  LET gone     == Fds \ Free
      Nth(i)   == CHOOSE fd \in gone :
                    Cardinality({other \in gone : other < fd}) = i - 1
      closes   == [i \in 1 .. Cardinality(gone) |->
                     Block("CLOSE", Nth(i), fds[Nth(i)].id, 0)]
      fit      == Cap - Len(q)
  IN  q \o SubSeq(closes, 1, IF fit < Len(closes) THEN fit ELSE Len(closes))

(* run_worker_process: a worker starts without any session. *)
FreshWorker == sess' = [fd \in Fds |-> 0] /\ count' = 0 /\ fin' = 0

(* restart_child_process: new queues, and a successor unless fork fails. *)
RestartChild ==
  /\ recvq' = <<>> /\ sendq' = <<>>
  /\ alive' \in BOOLEAN /\ FreshWorker

(* Mutant of HandleHangup: the connections of the dead worker stay. *)
HangupKeepsConns ==
  /\ ppc = "events" /\ hev /\ hev' = FALSE /\ hup' = FALSE
  /\ restarts' = restarts + 1 /\ restarts < MaxRestarts
  /\ RestartChild
  /\ UNCHANGED <<ptable, ppc, evs, lev, cur, buf, seq, etin, sock, backlog,
                 lrdy, dials, sends, crashes>>

(* handle_pipe_event: the worker is dead, its connections are deleted, and *)
(* it is restarted unless it has been too often.                           *)
HandleHangup ==
  /\ ppc = "events" /\ hev /\ hev' = FALSE /\ hup' = FALSE
  /\ Del(Fds)
  /\ restarts' = restarts + 1
  /\ \/ restarts < MaxRestarts /\ RestartChild
     \/ /\ restarts >= MaxRestarts
        /\ recvq' = AllToldFrom(recvq)
        /\ UNCHANGED <<cvars, sendq>>
  /\ UNCHANGED <<ppc, evs, lev, cur, buf, seq, etin, backlog, lrdy, dials,
                 sends, crashes>>

(* The end of net_loop: connections that were idle for too long. *)
BatchDone ==
  /\ ppc = "events" /\ ~lev /\ ~hev /\ \A fd \in Fds : evs[fd] = {}
  /\ ppc' = IF IdleTimeout THEN "reap" ELSE "close"
  /\ UNCHANGED <<ptable, evs, lev, hev, cur, buf, seq, etin, restarts, cvars,
                 recvq, sendq, sock, evars>>

Reap ==
  /\ ppc = "reap"
  /\ \/ /\ \E fd \in Fds \ Free : DelTelling(fd)
        /\ UNCHANGED ppc
     \/ ppc' = "close" /\ UNCHANGED <<ptable, recvq, sock>>
  /\ UNCHANGED <<evs, lev, hev, cur, buf, seq, etin, restarts, cvars, sendq,
                 evars>>

Parent ==
  \/ IterateClose \/ EpollWait \/ SendQueue \/ SendQueueEmpty
  \/ ParsePacket \/ GiveUp \/ HandleListen
  \/ Accept \/ AcceptEnds \/ AcceptFails
  \/ HandleHangup \/ BatchDone \/ Reap
  \/ \E fd \in Fds : HandleConn(fd)
-----------------------------------------------------------------------------
(***************************************************************************)
(* The worker.                                                             *)
(***************************************************************************)

(* Mutant of HandleClose: the session stays. *)
HandleCloseKeeps(fd) == count' = count - 1 /\ UNCHANGED sess

(* handle_close: whether there is a session or not. *)
HandleClose(fd) ==
  /\ sess' = [sess EXCEPT ![fd] = 0]
  /\ count' = count - 1

(* handle_recv_queue, one block. *)
PopOpen ==
  /\ alive /\ fin = 0 /\ recvq # <<>> /\ Head(recvq).type = "OPEN"
  /\ recvq' = Tail(recvq)
  /\ LET b == Head(recvq) IN
     \/ /\ sess[b.fd] = 0
        /\ sess' = [sess EXCEPT ![b.fd] = b.id] /\ count' = count + 1
        /\ UNCHANGED sendq
     \/ /\ sess[b.fd] # 0
        /\ sendq' = Pushed(sendq, Block("FIN", b.fd, b.id, 0))
        /\ UNCHANGED <<sess, count>>
  /\ UNCHANGED <<pvars, alive, fin, sock, evars>>

(* handle_process: the plugin may answer, and may refuse the packet. *)
PopData ==
  /\ alive /\ fin = 0 /\ recvq # <<>> /\ Head(recvq).type = "DATA"
  /\ recvq' = Tail(recvq)
  /\ LET b == Head(recvq) IN
     \/ sess[b.fd] = 0 /\ UNCHANGED <<sendq, fin>>
     \/ /\ sess[b.fd] # 0
        /\ \/ sendq' = Pushed(sendq, Block("DATA", b.fd, sess[b.fd], b.src))
           \/ UNCHANGED sendq
        /\ fin' \in {0, b.fd}
  /\ UNCHANGED <<pvars, alive, sess, count, sock, evars>>

PopClose ==
  /\ alive /\ fin = 0 /\ recvq # <<>> /\ Head(recvq).type = "CLOSE"
  /\ recvq' = Tail(recvq)
  /\ HandleClose(Head(recvq).fd)
  /\ UNCHANGED <<pvars, alive, fin, sendq, sock, evars>>

(* close_client_conn, after a packet the plugin refused or when the plugin *)
(* calls it (from a timer, or for a packet of a back-end server).          *)
CloseClientConn(fd) ==
  /\ alive /\ fin \in {0, fd} /\ fin' = 0
  /\ sess[fd] # 0
  /\ HandleClose(fd)
  /\ sendq' = Pushed(sendq, Block("FIN", fd, sess[fd], 0))
  /\ UNCHANGED <<pvars, alive, recvq, sock, evars>>

Worker == PopOpen \/ PopData \/ PopClose \/ \E fd \in Fds : CloseClientConn(fd)
-----------------------------------------------------------------------------
Next == Environment \/ Parent \/ Worker

Spec == Init /\ [][Next]_vars

(* Both loops keep running; nothing is assumed of the clients, nor of when *)
(* the plugin closes a connection by itself.                               *)
FairSpec == Spec /\ WF_vars(Parent) /\ WF_vars(PopOpen \/ PopData \/ PopClose)
                 /\ \A fd \in Fds : WF_vars(fin = fd /\ CloseClientConn(fd))
-----------------------------------------------------------------------------
(***************************************************************************)
(* Properties                                                              *)
(***************************************************************************)
InQueue(q, type, fd, id) ==
  \E b \in Range(q) : b.type = type /\ b.fd = fd /\ b.id = id

(* An answer that schedule_output will write to a client (net.c:432) stems *)
(* from a packet of that very connection, however often its descriptor was *)
(* closed and reused while the answer was on its way.                      *)
AnswersReachTheirClient ==
  \A i \in DOMAIN sendq :
    sendq[i].type = "DATA" /\ Deliverable(sendq[i])
      => sendq[i].src = fds[sendq[i].fd].id

(* "parent informs child that a connection had been closed" (shmq.h:33): a *)
(* session of the worker belongs to an open connection of the parent, or   *)
(* the CLOSE_BLOCK that ends it is in the receive queue.                   *)
SessionsEnd ==
  alive => \A fd \in Fds : sess[fd] # 0 =>
             \/ fds[fd] = [type |-> "remote", id |-> sess[fd]]
             \/ InQueue(recvq, "CLOSE", fd, sess[fd])

(* "child informs parent to close a connection" (shmq.h:31): a connection  *)
(* of the parent has a session in the worker, or is about to get one, or   *)
(* is about to be closed.                                                  *)
ConnectionsAreServed ==
  alive => \A fd \in Fds : fds[fd].type = "remote" =>
             \/ sess[fd] = fds[fd].id
             \/ InQueue(recvq, "OPEN", fd, fds[fd].id)
             \/ InQueue(sendq, "FIN", fd, fds[fd].id)
             \/ fd \in closeq

(* handle_open and handle_process look a session up by its descriptor      *)
(* alone (service.c:64, 93): the session they find is never the one of an  *)
(* earlier connection with that descriptor.                                *)
BlocksMeetTheirSession ==
  alive /\ recvq # <<>> =>
    LET b == Head(recvq) IN
      /\ b.type = "OPEN" => sess[b.fd] = 0
      /\ b.type = "DATA" => sess[b.fd] \in {0, b.id}

(* A waiting client is accepted when there is a descriptor for it, also    *)
(* when there was none at the time of the event, which epoll reports once: *)
(* do_open_conn keeps the listening socket in the etin queue (net.c:266).  *)
(* Of an accept that failed otherwise nothing is kept (net.c:265-269): the *)
(* rest of the backlog then waits for the next client's edge.              *)
ClientsAreAccepted ==
  backlog > 0 /\ Free # {} ~> backlog = 0 \/ Free = {} \/ lrdy = "lost"

(* net_recv "reads everything in the fd", and "after it returns 0 the fd   *)
(* is closed" (net.c:347, in Chinese), but recv is called once per edge    *)
(* (net.c:317).  The parent notices that a client has closed when nothing  *)
(* is left to be read before the end of file, which then has an edge of    *)
(* its own, whatever is in flight for the connection; an end of file that  *)
(* comes with the last packet is left behind.                              *)
ClosingIsNoticed ==
  \A fd \in Fds :
    /\ sock[fd].peer = "closed" /\ sock[fd].pkts = 0 /\ "in" \in sock[fd].rdy
    ~> sock[fd].peer # "closed"
=============================================================================
