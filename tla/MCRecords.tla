----------------------------- MODULE MCRecords -----------------------------
(* Small instances of FaucetRecords.                                        *)
EXTENDS FaucetRecords
=============================================================================
