-------------------------- MODULE MCBulkEncrypt ---------------------------
(* BulkEncrypt for TLC: every request of up to MaxItems items.             *)
EXTENDS BulkEncrypt
=============================================================================
