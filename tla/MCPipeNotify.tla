---------------------------- MODULE MCPipeNotify ----------------------------
(* Instances of PipeNotify for TLC.                                        *)
EXTENDS PipeNotify
=============================================================================
