--------------------------- MODULE MCQueryPlan ----------------------------
(* QueryPlan for TLC.                                                       *)
EXTENDS QueryPlan
=============================================================================
