----------------------------- MODULE MCShmQueue -----------------------------
(* Instances of ShmQueue for TLC.                                          *)
EXTENDS ShmQueue
=============================================================================
