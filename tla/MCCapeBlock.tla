---------------------------- MODULE MCCapeBlock ----------------------------
(* Every list of up to MaxNotes transactions, encoded and decoded.          *)
EXTENDS CapeBlock

CONSTANTS NoteIds,      \* what tells apart two notes of a type
          MaxNotes  \* bound: notes of a block

VARIABLE txns

BlockNotes == [type : Types, id : NoteIds]

CodecInit == txns = << >>

AddTxn ==
    /\ Len(txns) < MaxNotes
    /\ \E n \in BlockNotes : txns' = Append(txns, n)

CodecSpec == CodecInit /\ [][AddTxn]_txns

block == from_cape_transactions(txns)

(***************************************************************************)
(* The contract reads the notes of an encoded block in the order of the    *)
(* transactions it was made from (CAPE.sol:279 "Preserve the ordering of   *)
(* the (sub) arrays of notes").                                            *)
(***************************************************************************)
ContractReadsInOrder == ~Malformed(block) /\ contractOrder(block) = txns

(***************************************************************************)
(* Decoding loses, duplicates and invents nothing, and a block with at     *)
(* most one note of each type (the relayer's blocks have one note) decodes *)
(* to what it was made from.                                               *)
(***************************************************************************)
DecodesSameNotes ==
    LET decoded == into_cape_transactions(block)
    IN  /\ \A n \in BlockNotes : Cardinality({i \in DOMAIN decoded : decoded[i] = n})
                              = Cardinality({i \in DOMAIN txns : txns[i] = n})
        /\ IsInjective(TypesOf(txns)) => decoded = txns

(***************************************************************************)
(* The encoder agrees with both readers of a block: the contract and the   *)
(* query service's decoder (cape/mod.rs From<Vec<CapeModelTxn>>,           *)
(* into_cape_transactions).                                                *)
(***************************************************************************)
CodecKeepsNotes == ContractReadsInOrder /\ DecodesSameNotes

(***************************************************************************)
(* The comment at cape/mod.rs:97 calls note_types "the ordering of txn     *)
(* within the block": decoding a block gives its transactions in order.    *)
(***************************************************************************)
RoundTrip == into_cape_transactions(block) = txns
=============================================================================
