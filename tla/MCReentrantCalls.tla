------------------------- MODULE MCReentrantCalls -------------------------
(* ReentrantCalls for TLC.                                                  *)
EXTENDS ReentrantCalls
=============================================================================
