-------------------------- MODULE MCBulkRoundTrip --------------------------
(* BulkRoundTrip for TLC.                                                   *)
EXTENDS BulkRoundTrip
=============================================================================
