------------------------------ MODULE NetRecv ------------------------------
(***************************************************************************)
(* How net_recv cuts the bytes of a connection into packets (net.c).  The  *)
(* same code serves the clients in the parent, where a packet becomes a    *)
(* DATA_BLOCK, and the back-end servers in a worker, where it goes to the  *)
(* plugin.  A connection has a buffer of one page; a read takes what fits, *)
(* the plugin says how long the packet at the start of the buffer is, and  *)
(* what is left of a packet is moved to the start of the buffer.           *)
(*                                                                         *)
(* The socket is registered edge-triggered and read once per event: a      *)
(* connection whose buffer the read has filled goes into the etin queue    *)
(* and is read again at the start of the next turn of net_loop, which      *)
(* sleeps without a timeout in the parent and with one in a worker.        *)
(***************************************************************************)
EXTENDS Integers, Sequences, FiniteSetsExt, SequencesExt

CONSTANTS Page,       \* page_size, which is also the max of net_recv
          Hdr,        \* bytes the plugin needs to tell a packet's length
          Blk,        \* sizeof (struct shm_block)
          Lens,       \* lengths of the packets the peer sends
          MaxPkts,    \* bound: packets the peer sends on a connection
          MaxConns    \* bound: connections on the descriptor

ASSUME SizesAssumption ==
  /\ Page \in Nat \ {0} /\ Hdr \in 1 .. Page /\ Blk \in Nat \ {0}
  /\ Lens \subseteq Nat /\ \A l \in Lens : l >= Hdr
  /\ MaxPkts \in Nat /\ MaxConns \in Nat

VARIABLES
  is_parent,   \* which of the two processes this is
  conn,        \* the entry of epi.fds: "none", "open" or "closed"
  conns,       \* connections the entry has had
  buf,         \* the unparsed bytes; recvlen is its length
  off,         \* tmp_recvptr - recvptr
  prot,        \* rcvprotlen
  etin,        \* the connection is in the etin queue (CN_NEED_POLLIN)
  closing,     \* it is in the close queue (CN_NEED_CLOSE)
  at,          \* where the process is in net_loop and net_recv
  evt,         \* net_recv was called for an event
  (* the peer and the kernel *)
  net, wire,   \* bytes on their way, bytes in the socket
  eof,         \* the peer has closed its side
  edge,        \* the socket has an edge to report
  (* history of the connection *)
  sent, got    \* lengths of the packets sent, the packets handed on

buffer == <<buf, off, prot>>
queues == <<etin, closing>>
peer   == <<net, eof, sent>>
vars   == <<is_parent, conn, conns, buffer, queues, at, evt, net, wire, eof, edge,
            sent, got>>

(* A packet of l bytes; its first Hdr bytes tell l. *)
Packet(l) == [k \in 1 .. l |-> <<l, k>>]

Init ==
  /\ is_parent \in BOOLEAN
  /\ conn = "none" /\ conns = 0 /\ buf = <<>> /\ off = 0 /\ prot = 0
  /\ etin = FALSE /\ closing = FALSE
  /\ at = "etin" /\ evt = FALSE
  /\ net = <<>> /\ wire = <<>> /\ eof = FALSE /\ edge = FALSE
  /\ sent = <<>> /\ got = <<>>
-----------------------------------------------------------------------------
(***************************************************************************)
(* The peer and the kernel.                                                *)
(***************************************************************************)
PeerSend(l) ==
  /\ conn = "open" /\ ~eof /\ Len(sent) < MaxPkts
  /\ sent' = Append(sent, l) /\ net' = net \o Packet(l)
  /\ UNCHANGED <<is_parent, conn, conns, buffer, queues, at, evt, wire, eof, edge, got>>

(* Bytes arrive, as many as one likes at a time, and raise an edge. *)
Arrive(n) ==
  /\ n <= Len(net)
  /\ wire' = wire \o SubSeq(net, 1, n)
  /\ net' = SubSeq(net, n + 1, Len(net))
  /\ edge' = TRUE
  /\ UNCHANGED <<is_parent, conn, conns, buffer, queues, at, evt, eof, sent, got>>

PeerClose ==
  /\ conn = "open" /\ net = <<>> /\ ~eof
  /\ eof' = TRUE /\ edge' = TRUE
  /\ UNCHANGED <<is_parent, conn, conns, buffer, queues, at, evt, net, wire, sent, got>>

Environment ==
  \/ \E l \in Lens : PeerSend(l)
  \/ \E n \in 1 .. Len(net) : Arrive(n)
  \/ PeerClose
-----------------------------------------------------------------------------
(***************************************************************************)
(* The entry of the connection.                                            *)
(***************************************************************************)

(* do_add_conn clears the whole entry. *)
Fresh ==
  /\ conns < MaxConns /\ conns' = conns + 1
  /\ conn' = "open" /\ buf' = <<>> /\ off' = 0 /\ prot' = 0
  /\ etin' = FALSE /\ closing' = FALSE
  /\ net' = <<>> /\ wire' = <<>> /\ eof' = FALSE /\ edge' = FALSE
  /\ sent' = <<>> /\ got' = <<>>

(* do_open_conn in the parent. *)
OpenConn ==
  /\ is_parent /\ conn # "open" /\ at = "wait"
  /\ Fresh
  /\ UNCHANGED <<is_parent, at, evt>>

(* connect_to_svr, by the plugin of a worker; when connect fails nothing   *)
(* is added.                                                               *)
ConnectToSvr ==
  /\ ~is_parent /\ conn # "open" /\ at = "wait"
  /\ Fresh
  /\ UNCHANGED <<is_parent, at, evt>>

(* do_del_conn; it leaves rcvprotlen alone. *)
Del ==
  /\ conn' = "closed" /\ buf' = <<>> /\ off' = 0
  /\ etin' = FALSE /\ closing' = FALSE
  /\ net' = <<>> /\ wire' = <<>> /\ eof' = FALSE /\ edge' = FALSE
  /\ UNCHANGED <<conns, prot, sent, got>>

(* Where net_loop goes on once net_recv has returned. *)
After == IF evt THEN "etin" ELSE "wait"

(* close_svr, by the plugin of a worker: do_del_conn in mode 2. *)
CloseSvr ==
  /\ conn = "open" /\ ~is_parent /\ at = "wait"
  /\ Del
  /\ UNCHANGED <<is_parent, at, evt>>

(* In the parent: the client was silent for too long, or its worker hung   *)
(* up.                                                                     *)
Reap ==
  /\ conn = "open" /\ is_parent /\ at = "wait"
  /\ Del
  /\ UNCHANGED <<is_parent, at, evt>>

(* A FIN_BLOCK of the worker: add_to_close_queue, between epoll_wait and   *)
(* the events of the batch.                                                *)
Fin ==
  /\ conn = "open" /\ is_parent /\ at = "wait" /\ ~closing
  /\ closing' = TRUE /\ etin' = FALSE
  /\ UNCHANGED <<is_parent, conn, conns, buffer, at, evt, net, wire, eof, edge, sent,
                 got>>

(* iterate_close_queue, before the etin queue is looked at. *)
IterateClose ==
  /\ at = "etin" /\ closing
  /\ Del
  /\ UNCHANGED <<is_parent, at, evt>>
-----------------------------------------------------------------------------
(***************************************************************************)
(* do_read_conn: one recv for what fits into the buffer.  A full buffer is *)
(* not read into, and recv is then not called.                             *)
(***************************************************************************)
Room == Page - Len(buf)

(* safe_tcp_recv: the bytes it returns of a socket without error or end. *)
SafeTcpRecv == Min({Room, Len(wire)})

ReadEof == Room > 0 /\ wire = <<>> /\ eof

(* Mutant of EtinQueue: the queue is not used. *)
EtinQueueUnused(n) == FALSE

(* The etin queue after n bytes were read: a connection of the close queue *)
(* is not taken.                                                           *)
EtinQueue(n) == IF Room = 0 THEN etin ELSE Len(buf) + n = Page /\ ~closing

Read ==
  \/ /\ ReadEof
     /\ Del
     /\ at' = After'
  \/ /\ ~ReadEof
     /\ LET n == SafeTcpRecv
        IN  /\ buf' = buf \o SubSeq(wire, 1, n)
            /\ wire' = SubSeq(wire, n + 1, Len(wire))
            /\ etin' = EtinQueue(n)
     /\ at' = "parse"
     /\ UNCHANGED <<closing, conn, conns, off, prot, peer, got>>

(* iterate_etin_queue, at the start of net_loop. *)
IterateEtin ==
  /\ at = "etin" /\ ~closing
  /\ evt' = FALSE
  /\ \/ etin /\ Read /\ edge' = (edge /\ ~ReadEof)
     \/ /\ ~etin /\ at' = "wait"
        /\ UNCHANGED <<conn, conns, buffer, queues, peer, wire, edge, got>>
  /\ UNCHANGED is_parent

(* epoll_wait reports the edge, and the event is handled. *)
Event ==
  /\ at = "wait" /\ edge
  /\ evt' = TRUE /\ edge' = FALSE
  /\ Read
  /\ UNCHANGED is_parent

(* epoll_wait returns with nothing for this connection: in a worker by its *)
(* timeout, in the parent only when something else happens, and after a    *)
(* FIN_BLOCK, whatever has arrived meanwhile.                              *)
Wake ==
  /\ at = "wait" /\ (edge => closing)
  /\ at' = "etin"
  /\ UNCHANGED <<is_parent, conn, conns, buffer, queues, evt, net, wire, eof, edge,
                 sent, got>>
-----------------------------------------------------------------------------
(***************************************************************************)
(* net_recv after the read, from the label parse_again on.                 *)
(***************************************************************************)

(* get_pkg_len of the plugin: 0 until the header is complete. *)
GetPkgLen == IF Len(buf) < Hdr THEN 0 ELSE buf[1][1]

(* rcvprotlen at the first test. *)
ProtLen == IF prot = 0 THEN GetPkgLen ELSE prot

(* Mutant of TooBig: off by one. *)
TooBigOffByOne == ProtLen > Page + 1

TooBig == ProtLen > Page

Refuse ==
  /\ at = "parse" /\ TooBig
  /\ Del
  /\ at' = After
  /\ UNCHANGED <<is_parent, evt>>

(* The packet is not complete, or has no length yet, which ends the        *)
(* process when the buffer is full.                                        *)
Incomplete ==
  /\ at = "parse" /\ ~TooBig
  /\ ProtLen = 0 \/ Len(buf) < ProtLen
  /\ prot' = ProtLen
  /\ at' = IF ProtLen = 0 /\ Len(buf) = Page THEN "exited" ELSE "rest"
  /\ UNCHANGED <<is_parent, conn, conns, buf, off, queues, evt, net, wire, eof, edge,
                 sent, got>>

Complete == at = "parse" /\ ~TooBig /\ ProtLen # 0 /\ Len(buf) >= ProtLen

(* Mutant of NextPacket: the length is kept for the next packet. *)
NextPacketKeepsLen ==
  /\ got' = Append(got, SubSeq(buf, 1, ProtLen))
  /\ buf' = SubSeq(buf, ProtLen + 1, Len(buf))
  /\ off' = IF Len(buf) > ProtLen THEN off + ProtLen ELSE off
  /\ prot' = ProtLen
  /\ at' = IF Len(buf) > ProtLen THEN "parse" ELSE "rest"

NextPacket ==
  /\ got' = Append(got, SubSeq(buf, 1, ProtLen))
  /\ buf' = SubSeq(buf, ProtLen + 1, Len(buf))
  /\ off' = IF Len(buf) > ProtLen THEN off + ProtLen ELSE off
  /\ prot' = 0
  /\ at' = IF Len(buf) > ProtLen THEN "parse" ELSE "rest"

(* The packet is pushed to the worker, or handed to the plugin. *)
HandOn ==
  /\ Complete
  /\ is_parent => ProtLen + Blk <= Page
  /\ NextPacket
  /\ UNCHANGED <<is_parent, conn, conns, queues, evt, net, wire, eof, edge, sent>>

(* shmq_push refuses it: it is too long for a block, or the queue is full. *)
PushRefused ==
  /\ Complete /\ is_parent
  /\ Del
  /\ at' = After
  /\ UNCHANGED <<is_parent, evt>>

(* The plugin closes the connection from within proc_pkg_from_serv, and    *)
(* net_recv returns; or it connects again and gets the same descriptor,    *)
(* which net_recv does not notice: the new entry has an empty buffer.      *)
PluginCloses ==
  /\ Complete /\ ~is_parent
  /\ Del \/ Fresh
  /\ at' = After
  /\ UNCHANGED <<is_parent, evt>>

(* What is left moves to the start of the buffer, by memcpy: where source  *)
(* and target overlap, its outcome is not defined.                         *)
Overlaps == off > 0 /\ Len(buf) > off

Rest ==
  /\ at = "rest"
  /\ off' = 0
  /\ \/ at' = After
     \/ Overlaps /\ at' = "garbled"
  /\ UNCHANGED <<is_parent, conn, conns, buf, prot, queues, evt, net, wire, eof, edge,
                 sent, got>>
-----------------------------------------------------------------------------
Process ==
  \/ OpenConn \/ ConnectToSvr \/ CloseSvr \/ Reap \/ Fin
  \/ IterateClose \/ IterateEtin \/ Event \/ Wake
  \/ Refuse \/ Incomplete \/ HandOn \/ PushRefused \/ PluginCloses \/ Rest

Next == Environment \/ Process

Spec == Init /\ [][Next]_vars

(* The process goes on, but a sleep without a timeout may last for ever. *)
FairSpec ==
  Spec /\ WF_vars(\/ IterateClose \/ IterateEtin \/ Event
                  \/ Refuse \/ Incomplete \/ HandOn \/ Rest)
       /\ WF_vars(Wake /\ ~is_parent)
-----------------------------------------------------------------------------
Packets == [i \in DOMAIN sent |-> Packet(sent[i])]

(* The stream is cut where the peer's packets end, whatever pieces it      *)
(* arrives in: each packet is handed on once, whole and in order, and      *)
(* every other byte is still in the buffer, in the socket or on its way    *)
(* (the loop around parse_again).  A connection whose rest was moved by    *)
(* memcpy onto itself (net.c:400) is excepted: it is garbled.              *)
PacketsArriveWhole ==
  /\ \A i \in DOMAIN got : got[i] = Packet(sent[i])
  /\ conn = "open" /\ at # "garbled" =>
       FlattenSeq(got) \o buf \o wire \o net = FlattenSeq(Packets)

(* Between two events the buffer has room: recv is never asked for no      *)
(* bytes, whose 0 would be taken for a close, and the exit for packets     *)
(* without a length is not taken (net.c:311, 317, 365).                    *)
BufferHasRoom ==
  /\ at \in {"etin", "wait"} => Len(buf) < Page
  /\ at # "exited"

(* One read per edge: what it leaves in the socket is remembered by the    *)
(* etin queue (net.c:333), or a new edge is there, unless the connection   *)
(* is in the close queue, which takes it out of the etin queue and keeps   *)
(* it out (net.c:81, 92).  In a worker, whose epoll_wait has a timeout,    *)
(* everything that arrives is read in the end; the parent may sleep on.    *)
UnreadIsRead ==
  /\ [](wire # <<>> => edge \/ etin \/ closing)
  /\ ~is_parent /\ wire # <<>> ~> wire = <<>> \/ at = "garbled"
=============================================================================
