-------------------------- MODULE MCClientHandle --------------------------
(* ClientHandle for TLC: goroutines as model values.                       *)
EXTENDS ClientHandle
=============================================================================
