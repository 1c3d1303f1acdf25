----------------------------- MODULE MCNetRecv -----------------------------
(* The root TLC starts from for the framing of a connection. *)
EXTENDS NetRecv
=============================================================================
