------------------------------ MODULE NetSend ------------------------------
(***************************************************************************)
(* How net_send and do_write_conn bring answers to a socket that does not  *)
(* take everything at once (net_if.c, net.c).  What the socket refuses is  *)
(* kept in a buffer that grows when needed; EPOLLOUT is armed, edge-       *)
(* triggered, while the buffer is not empty.  A connection that the worker *)
(* ends goes into the close queue and is deleted in the next turn of       *)
(* net_loop, unless the end of the stream, a bad packet, the idle timeout  *)
(* or the death of the worker has it deleted before.  The same code serves *)
(* the clients in the parent, where send_buf_limit_size applies, and the   *)
(* back-end servers in a worker.                                           *)
(*                                                                         *)
(* Bytes are numbered in the order in which net_send is given them.        *)
(***************************************************************************)
EXTENDS Integers, Sequences, FiniteSetsExt

CONSTANTS Cap,       \* bytes the socket holds
          Lens,      \* lengths of the answers
          Limits,    \* values of send_buf_limit_size, 0 for none
          MaxBytes   \* bound: bytes given to net_send

ASSUME SendAssumption ==
  /\ Cap \in Nat \ {0} /\ MaxBytes \in Nat
  /\ Lens \subseteq Nat \ {0} /\ Limits \subseteq Nat

VARIABLES
  is_parent, limit,
  at,          \* "turn", "wait", "work"; inside net_send "data", "arm"
  conn,        \* the connection: "open" or "closed"
  closing,     \* it is in the close queue (CN_NEED_CLOSE)
  buf, bufsz,  \* the unsent bytes (sendptr, sendlen), sndbufsz
  armed,       \* EPOLLOUT is registered
  want, prev,  \* inside net_send: len, and prev_stat
  ready,       \* the event the batch holds: "none", "out" or "hup"
  total,       \* bytes given to net_send so far
  (* the kernel and the peer *)
  sock,        \* bytes in the socket
  edge,        \* an EPOLLOUT or EPOLLHUP event is to be reported
  reset,       \* the peer has reset the connection
  rcvd,        \* the bytes the peer has read
  fate         \* why it is to be deleted in any case, or "none"

sendbuf == <<buf, bufsz>>
kernel  == <<sock, edge, reset, rcvd>>
given   == <<is_parent, limit, fate>>
vars == <<given, at, conn, closing, sendbuf, armed, want, prev, ready,
          total, kernel>>

Bytes(a, b) == [k \in 1 .. b - a |-> a + k]       \* the bytes after a, to b
Drop(s, n) == SubSeq(s, n + 1, Len(s))

Init ==
  /\ is_parent \in BOOLEAN /\ limit \in Limits
  /\ at = "turn" /\ conn = "open" /\ closing = FALSE
  /\ buf = <<>> /\ bufsz = 0 /\ armed = FALSE /\ want = 0 /\ prev = FALSE
  /\ ready = "none" /\ total = 0
  /\ sock = <<>> /\ edge = FALSE /\ reset = FALSE /\ rcvd = <<>>
  /\ fate = "none"
-----------------------------------------------------------------------------
(***************************************************************************)
(* The peer.  A socket that was full and has room again raises an edge if  *)
(* EPOLLOUT is armed; what was sent before a close is still delivered.     *)
(***************************************************************************)
PeerReads(n) ==
  /\ ~reset
  /\ rcvd' = rcvd \o SubSeq(sock, 1, n) /\ sock' = Drop(sock, n)
  /\ edge' = (edge \/ (armed /\ conn = "open" /\ Len(sock) = Cap))
  /\ UNCHANGED <<given, at, conn, closing, sendbuf, armed, want, prev,
                 ready, total, reset>>

PeerResets ==
  /\ ~reset /\ conn = "open"
  /\ reset' = TRUE /\ edge' = TRUE /\ sock' = <<>>
  /\ UNCHANGED <<given, at, conn, closing, sendbuf, armed, want, prev,
                 ready, total, rcvd>>

(* What ends a connection without regard to its buffer: its stream ends or *)
(* has a packet that is refused; its client is silent, or its worker dies; *)
(* in a worker, the plugin closes it.                                      *)
Fates == IF is_parent THEN {"ended", "idle", "orphaned"} ELSE {"ended", "dropped"}

Doomed ==
  /\ conn = "open" /\ fate = "none" /\ fate' \in Fates
  /\ UNCHANGED <<is_parent, limit, at, conn, closing, sendbuf, armed, want, prev,
                 ready, total, kernel>>

Peer == PeerResets \/ Doomed \/ \E n \in 1 .. Len(sock) : PeerReads(n)
-----------------------------------------------------------------------------
(* do_del_conn, with free_cb. *)
Del ==
  /\ conn' = "closed" /\ closing' = FALSE
  /\ buf' = <<>> /\ bufsz' = 0 /\ armed' = FALSE /\ edge' = FALSE

(* safe_tcp_send_n: what the socket takes of n bytes before it would       *)
(* block; it sends in a loop, so less than n means that it is full.        *)
Taken(n) == Min({n, Cap - Len(sock)})

(* do_write_conn: what is sent of the buffer. *)
Written == Taken(Len(buf))

(* Mutant of NewData: the new bytes are offered before the buffer is empty. *)
NewDataFirst == Taken(want)

(* What is sent of the new bytes. *)
NewData == IF buf = <<>> THEN Taken(want) ELSE 0

(* Mutant of Grown: the bytes already in the buffer are not counted. *)
GrownByRest(rest) == IF bufsz < rest THEN rest ELSE bufsz

(* sndbufsz once rest bytes are appended: malloc, realloc, or no change. *)
Grown(rest) ==
  IF rest > 0 /\ bufsz < Len(buf) + rest THEN Len(buf) + rest ELSE bufsz

OverLimit(rest) ==
  rest > 0 /\ is_parent /\ limit > 0 /\ Len(buf) + rest > limit

(* Mutant of MustMod: a buffer that was empty is not watched. *)
MustModPrev(len) == prev

(* One of the two calls of mod_events is due with len bytes buffered. *)
MustMod(len) == (len > 0 /\ ~prev) \/ (prev /\ len = 0)

(* net_send, called by schedule_output in the parent and by the plugin in  *)
(* a worker: first do_write_conn for what is buffered.                     *)
NetSend(n) ==
  /\ at = "work" /\ conn = "open" /\ ~closing /\ total + n <= MaxBytes
  /\ ~(reset /\ buf # <<>>)
  /\ want' = n /\ prev' = (buf # <<>>) /\ at' = "data"
  /\ sock' = sock \o SubSeq(buf, 1, Written) /\ buf' = Drop(buf, Written)
  /\ UNCHANGED <<given, conn, closing, bufsz, armed, ready, total,
                 edge, reset, rcvd>>

(* Then the new bytes, if the buffer is empty; the rest is appended.  At   *)
(* the limit it returns before mod_events.                                 *)
SendData ==
  /\ at = "data" /\ ~(reset /\ buf = <<>>)
  /\ LET s    == NewData
         rest == want - s
     IN  /\ sock' = sock \o Bytes(total, total + s)
         /\ buf' = buf \o Bytes(total + s, total + want)
         /\ bufsz' = Grown(rest)
         /\ total' = total + want
         /\ at' = IF MustMod(Len(buf) + rest) /\ ~OverLimit(rest)
                    THEN "arm" ELSE "work"
  /\ UNCHANGED <<given, conn, closing, armed, want, prev, ready,
                 edge, reset, rcvd>>

(* A socket the peer has reset fails either write, and the connection is   *)
(* deleted.                                                                *)
NetSendFails ==
  /\ conn = "open" /\ reset
  /\ \/ at = "work" /\ buf # <<>> /\ ~closing
     \/ at = "data" /\ buf = <<>>
  /\ Del
  /\ at' = "work"
  /\ UNCHANGED <<given, want, prev, ready, total, sock, reset, rcvd>>

(* mod_events: epoll looks at the socket again, so that room which came up *)
(* since the send is reported.                                             *)
ModEvents ==
  /\ at = "arm"
  /\ at' = "work" /\ armed' = ~prev
  /\ edge' = (reset \/ (~prev /\ Len(sock) < Cap))
  /\ UNCHANGED <<given, conn, closing, sendbuf, want, prev, ready,
                 total, sock, reset, rcvd>>

(* schedule_output of a FIN_BLOCK: add_to_close_queue. *)
Fin ==
  /\ at = "work" /\ is_parent /\ conn = "open" /\ ~closing
  /\ closing' = TRUE
  /\ UNCHANGED <<given, at, conn, sendbuf, armed, want, prev, ready, total,
                 kernel>>

(* net_loop handles an event: do_write_conn for EPOLLOUT, which is         *)
(* disarmed when the buffer is empty.                                      *)
HandleOut ==
  /\ at = "work" /\ ready = "out" /\ conn = "open" /\ ~(reset /\ buf # <<>>)
  /\ sock' = sock \o SubSeq(buf, 1, Written)
  /\ buf' = Drop(buf, Written)
  /\ armed' = (armed /\ Written < Len(buf))
  /\ edge' = ((edge /\ buf' # <<>>) \/ reset)
  /\ ready' = "none"
  /\ UNCHANGED <<given, at, conn, closing, bufsz, want, prev, total,
                 reset, rcvd>>

(* EPOLLHUP, or a write that fails.  The event of a connection that is     *)
(* gone is skipped.                                                        *)
HandleHup ==
  /\ at = "work" /\ ready # "none"
  /\ conn = "closed" \/ ready = "hup" \/ (reset /\ buf # <<>>)
  /\ Del
  /\ ready' = "none"
  /\ UNCHANGED <<given, at, want, prev, total, sock, reset, rcvd>>

(* The connection is deleted with whatever its buffer holds. *)
DelUnwritten(why) ==
  /\ conn = "open" /\ fate = why /\ Del
  /\ UNCHANGED <<given, at, want, prev, ready, total, sock, reset, rcvd>>

(* net_recv fails, for EPOLLIN or from the etin queue, which a connection  *)
(* of the close queue is not in.                                           *)
HandleIn == (at = "work" \/ (at = "wait" /\ ~closing)) /\ DelUnwritten("ended")

(* socket_timeout, after the batch. *)
Reap == at = "work" /\ ready = "none" /\ DelUnwritten("idle")

(* handle_pipe_event deletes the connections of a worker that hung up. *)
WorkerHangup == at = "work" /\ DelUnwritten("orphaned")

(* close_svr, by the plugin. *)
CloseSvr == at = "work" /\ DelUnwritten("dropped")

(* Mutant of IterateClose: the buffer is not written. *)
CloseUnwritten ==
  /\ at = "turn" /\ at' = "wait"
  /\ IF closing THEN Del /\ UNCHANGED sock
                ELSE UNCHANGED <<conn, closing, sendbuf, armed, edge, sock>>
  /\ UNCHANGED <<given, want, prev, ready, total, reset, rcvd>>

(* iterate_close_queue: one do_write_conn, then do_del_conn. *)
IterateClose ==
  /\ at = "turn" /\ at' = "wait"
  /\ IF closing
       THEN /\ Del
            /\ sock' = IF reset THEN sock ELSE sock \o SubSeq(buf, 1, Written)
       ELSE UNCHANGED <<conn, closing, sendbuf, armed, edge, sock>>
  /\ UNCHANGED <<given, want, prev, ready, total, reset, rcvd>>

(* epoll_wait: returns for an event of this connection, or for others. *)
EpollWait ==
  /\ at = "wait" /\ at' = "work"
  /\ ready' = CASE ~edge -> "none" [] edge /\ reset -> "hup" [] OTHER -> "out"
  /\ edge' = FALSE
  /\ UNCHANGED <<given, conn, closing, sendbuf, armed, want, prev, total,
                 sock, reset, rcvd>>

TurnEnds ==
  /\ at = "work" /\ ready = "none" /\ at' = "turn"
  /\ UNCHANGED <<given, conn, closing, sendbuf, armed, want, prev, ready,
                 total, kernel>>

Work == (\E n \in Lens : NetSend(n)) \/ Fin

Loop ==
  \/ SendData \/ NetSendFails \/ ModEvents
  \/ HandleOut \/ HandleHup \/ TurnEnds \/ IterateClose
  \/ HandleIn \/ Reap \/ WorkerHangup \/ CloseSvr

Next == Peer \/ Work \/ Loop \/ EpollWait

Spec == Init /\ [][Next]_vars

(* The peer reads; the process runs on; epoll_wait returns when there is   *)
(* an event, but may otherwise sleep for ever.                             *)
FairSpec ==
  /\ Spec
  /\ WF_vars(\E n \in 1 .. Len(sock) : PeerReads(n))
  /\ WF_vars(Loop) /\ WF_vars(edge /\ EpollWait)
-----------------------------------------------------------------------------
(* What is appended to the send buffer always fits into its memory, which  *)
(* is only ever made larger (the realloc of net_send).                     *)
BufferFits == Len(buf) <= bufsz

(* The peer gets the bytes in the order they were given to net_send, and   *)
(* none is lost while the connection is open: new data is never sent past  *)
(* what is still buffered.                                                 *)
InOrder ==
  /\ ~reset => rcvd \o sock = Bytes(0, Len(rcvd \o sock))
  /\ conn = "open" /\ ~reset => rcvd \o sock \o buf = Bytes(0, total)

(* The limit stands in the way of no single answer. *)
NoLimit == limit = 0 \/ ~is_parent \/ \A n \in Lens : n <= limit

(* Bytes never wait in the buffer with EPOLLOUT unarmed, and an armed      *)
(* connection whose socket has room has an event to report, also when the  *)
(* room came up between send and epoll_ctl.  (Where one answer can exceed  *)
(* send_buf_limit_size, net_send returns before it arms.)                  *)
WaitingIsWatched ==
  /\ NoLimit /\ conn = "open" /\ at \notin {"data", "arm"} /\ buf # <<>>
       => armed
  /\ armed /\ at \notin {"data", "arm"} /\ buf # <<>> /\ Len(sock) < Cap
       => edge \/ ready # "none"

(* A connection that the worker ends (FIN_BLOCK) is deleted with bytes     *)
(* unsent only if the socket was full or had been reset, as                *)
(* iterate_close_queue writes the buffer once (net.c:101-113); or if, in   *)
(* the very turn that put it in the close queue, net_recv failed, it was   *)
(* idle for too long, or its worker hung up (net.c:581, 602, 632).         *)
CloseWrites ==
  [][closing /\ conn' = "closed" /\ ~reset
       => \/ Len(sock') = Cap \/ Len(rcvd') + Len(sock') = total
          \/ at = "work" /\ fate # "none"]_vars

(* And it is deleted, although epoll_wait has no timeout, since the close  *)
(* queue is filled only after it has returned.                             *)
CloseFlushes == CloseWrites /\ (closing ~> conn = "closed")

(* If the peer reads, what is buffered gets sent: no answer is stuck.      *)
BufferDrains == NoLimit /\ buf # <<>> ~> buf = <<>>
=============================================================================
