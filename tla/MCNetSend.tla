----------------------------- MODULE MCNetSend -----------------------------
(* The root TLC starts from for the sending side of a connection. *)
EXTENDS NetSend
=============================================================================
