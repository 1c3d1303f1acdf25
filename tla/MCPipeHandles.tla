--------------------------- MODULE MCPipeHandles ---------------------------
(* The root TLC starts from for the descriptors of the pipes. *)
EXTENDS PipeHandles
=============================================================================
