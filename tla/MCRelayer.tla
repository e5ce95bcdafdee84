----------------------------- MODULE MCRelayer -----------------------------
(* A small instance of Relayer.                                             *)
EXTENDS Relayer
=============================================================================
