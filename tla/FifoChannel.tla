---------------------------- MODULE FifoChannel ----------------------------
(***************************************************************************)
(* What a shared-memory queue of src/src/shmq.c promises to the two        *)
(* processes that share it: an unbounded FIFO channel from one producer to *)
(* one consumer, in which the consumer works on one received message at a  *)
(* time, in place, and nobody else can change that message meanwhile.      *)
(*                                                                         *)
(* ShmQueue is shown to implement this specification; the modules above    *)
(* the queue (PipeNotify, ConnSession) use it in place of the ring.        *)
(***************************************************************************)
EXTENDS Sequences

CONSTANTS Payload,   \* what a message carries
          Nothing    \* the consumer is not working on a message

VARIABLES chan,      \* messages pushed and not yet popped, oldest first
          got        \* the message the consumer is working on, or Nothing

vars == <<chan, got>>

Init == chan = <<>> /\ got = Nothing

(* A push that succeeds. *)
Send(d) == chan' = Append(chan, d) /\ UNCHANGED got

(* A pop that finds a message. *)
Receive ==
  /\ chan # <<>>
  /\ got' = Head(chan)
  /\ chan' = Tail(chan)

(* The consumer comes back to the queue: it is done with the message. *)
Release == got' = Nothing /\ UNCHANGED chan

Next == (\E d \in Payload : Send(d)) \/ Receive \/ Release

Spec == Init /\ [][Next]_vars
=============================================================================
