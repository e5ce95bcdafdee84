------------------------------ MODULE MCWallet ------------------------------
(* Small instances of Wallet.                                               *)
EXTENDS Wallet
=============================================================================
