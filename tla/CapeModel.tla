----------------------------- MODULE CapeModel -----------------------------
(***************************************************************************)
(* The executable model of the contract (contracts/rust/src/model.rs).     *)
(* submit_operations takes a state and a list of operations to a result;   *)
(* an error leaves the caller with the state it had.                       *)
(*                                                                         *)
(* A record stands for its commitment, the nullifier of a record is its    *)
(* position in the tree, and a root is the number of leaves under it.      *)
(* Amounts are all one.                                                    *)
(***************************************************************************)
EXTENDS Naturals, Sequences, FiniteSets, SequencesExt

CONSTANTS
    Erc20Codes,
    Sponsors,
    CAPE_NUM_ROOTS,
    KeySizes           \* <<circuit, inputs, outputs>> with a verifying key

ASSUME CapeModelAssumption == CAPE_NUM_ROOTS \in Nat \ {0}

\* An asset definition is what is hashed into its code.
ForeignAssets == [erc20 : Erc20Codes, sponsor : Sponsors]

native == [erc20 |-> "none", sponsor |-> "none"]

domestic == [erc20 |-> "none", sponsor |-> "creator"]

CapeContractState(leaves) ==
    [state_number |-> 0,
     leaves |-> leaves,              \* commitment and frontier of the tree
     past_record_merkle_roots |-> <<>>,
     nullifiers |-> {},
     erc20_registrar |-> {},         \* asset definitions, each with its token
     erc20_deposited |-> [e \in Erc20Codes |-> 0],
     erc20_deposits |-> <<>>]

record_merkle_root(c) == Len(c.leaves)

-----------------------------------------------------------------------------
(* Results: a state with the effects so far, or an error.                  *)

Ok(c, effects) == [error |-> "none", state |-> c, effects |-> effects]

Err(result, error) == [result EXCEPT !.error = error]

ReceiveErc20(e) == [effect |-> "ReceiveErc20", erc20 |-> e]

SendErc20(e) == [effect |-> "SendErc20", erc20 |-> e]

Erc20Deposited(ro) == [effect |-> "Erc20Deposited", ro |-> ro]

BlockCommitted(txns, wraps) ==
    [effect |-> "BlockCommitted", txns |-> txns, wraps |-> wraps]

\* Removes the burned record, the second output.
commitments(txn) ==
    IF txn.kind = "Burn" THEN RemoveAt(txn.outputs, 2) ELSE txn.outputs

is_erc20_asset_def_valid(asset, erc20, sponsor) ==
    asset = [erc20 |-> erc20, sponsor |-> sponsor]

\* "none": not a burn; "burn": the magic bytes and a recipient; else refused.
extract_burn_dst(txn) == txn.bound

-----------------------------------------------------------------------------
(* One operator for each operation.                                        *)

RegisterErc20(res, op) ==
    IF ~is_erc20_asset_def_valid(op.asset, op.erc20, op.sponsor)
    THEN Err(res, "InvalidErc20Def")
    ELSE IF op.asset \in res.state.erc20_registrar
    THEN Err(res, "Erc20AlreadyRegistered")
    ELSE [res EXCEPT !.state.erc20_registrar = @ \cup {op.asset}]

WrapErc20(res, op) ==
    LET c == res.state IN
    IF op.ro.asset \notin c.erc20_registrar
    THEN Err(res, "UnregisteredErc20")
    ELSE IF op.ro.asset.erc20 # op.erc20
    THEN Err(res, "IncorrectErc20")
    ELSE Ok([c EXCEPT !.erc20_deposits = Append(@, op.ro),
                      !.erc20_deposited[op.erc20] = @ + 1],
            res.effects \o <<ReceiveErc20(op.erc20), Erc20Deposited(op.ro)>>)

\* Transactions with a nullifier that is already published are dropped.
filtered_txns(c, txns) ==
    SelectSeq(txns, LAMBDA t : ToSet(t.nullifiers) \cap c.nullifiers = {})

\* Mutant: a nullifier that is published already is accepted.
insertWithoutCheck(res, txn) ==
    [res EXCEPT !.state.nullifiers = @ \cup ToSet(txn.nullifiers)]

\* Publishes the nullifiers of a transaction, unless one is there already.
insertNullifiers(res, txn) ==
    IF \/ ToSet(txn.nullifiers) \cap res.state.nullifiers # {}
       \/ ~IsInjective(txn.nullifiers)
    THEN Err(res, "NullifierAlreadyExists")
    ELSE [res EXCEPT !.state.nullifiers = @ \cup ToSet(txn.nullifiers)]

\* Every circuit reports the error of burns.
key_for_size(res, circuit, txn) ==
    IF <<circuit, Len(txn.nullifiers), Len(txn.outputs)>> \in KeySizes
    THEN res
    ELSE Err(res, "UnsupportedBurnSize")

\* checked_sub computes what is left, and the result is not stored.
burnTxn(res, txn) ==
    LET asset == txn.ro.asset IN
    IF Len(txn.outputs) < 2
    THEN Err(res, "UnsupportedBurnSize")
    ELSE IF txn.outputs[2] # txn.ro
    THEN Err(res, "IncorrectBurnOpening")
    ELSE IF asset \notin res.state.erc20_registrar
    THEN Err(res, "UnregisteredErc20")
    ELSE IF extract_burn_dst(txn) # "burn"
    THEN Err(res, "IncorrectBurnField")
    ELSE IF res.state.erc20_deposited[asset.erc20] < 1
    THEN Err(res, "panic")
    ELSE key_for_size([res EXCEPT !.effects = Append(@, SendErc20(asset.erc20))], "xfr", txn)

transferTxn(res, txn) ==
    IF extract_burn_dst(txn) # "none" THEN Err(res, "IncorrectBurnField")
    ELSE key_for_size(res, "xfr", txn)

\* There is one size of mints; minted assets and frozen records are checked by
\* the proof alone.
checkTxn(res, txn) ==
    CASE txn.kind = "Burn" -> burnTxn(res, txn)
      [] txn.kind = "Transfer" -> transferTxn(res, txn)
      [] txn.kind = "Freeze" -> key_for_size(res, "freeze", txn)
      [] OTHER -> res

acceptedRoot(c, root) ==
    \/ root = record_merkle_root(c)
    \/ root \in ToSet(c.past_record_merkle_roots)

checkRoot(res, txn) ==
    IF acceptedRoot(res.state, txn.root) THEN res ELSE Err(res, "BadMerkleRoot")

Then(res, Step(_, _), x) == IF res.error = "none" THEN Step(res, x) ELSE res

\* The loop over the transactions of a block, up to the proofs.
checkTxns(res, txns) ==
    FoldLeft(LAMBDA r, txn : Then(Then(Then(r, insertNullifiers, txn), checkTxn, txn),
                                  checkRoot, txn),
             res, txns)

(***************************************************************************)
(* external: what a proof that verifies establishes.  The inputs are       *)
(* leaves under the root, the outputs carry the assets of the inputs, and  *)
(* the transaction has not expired.                                        *)
(***************************************************************************)
txn_batch_verify(c, txns) ==
    \A i \in DOMAIN txns :
        LET txn == txns[i] IN
        /\ \A n \in ToSet(txn.nullifiers) : n \in 1 .. txn.root
        /\ txn.valid_until >= c.state_number
        /\ \A k \in DOMAIN txn.outputs :
              txn.outputs[k].asset =
                 IF txn.kind = "Mint" /\ k = 2 THEN domestic
                 ELSE c.leaves[txn.nullifiers[k]].asset

\* The proofs of a block are verified together, if there are any.
batchVerify(res, txns) ==
    IF txns # <<>> /\ ~txn_batch_verify(res.state, txns) THEN Err(res, "CryptoError") ELSE res

\* Mutant: the oldest root is dropped one block too early.
popAfterPush(c) ==
    LET pushed == <<record_merkle_root(c)>> \o c.past_record_merkle_roots
    IN  IF Len(pushed) >= CAPE_NUM_ROOTS THEN Front(pushed) ELSE pushed

\* The history keeps CAPE_NUM_ROOTS roots besides the current one.
pushRoot(c) ==
    LET past == c.past_record_merkle_roots
        kept == IF Len(past) >= CAPE_NUM_ROOTS THEN Front(past) ELSE past
    IN  <<record_merkle_root(c)>> \o kept

outputsOf(txns) == FlattenSeq([i \in DOMAIN txns |-> commitments(txns[i])])

\* Mutant: the deposits go into the tree before the outputs of the block.
depositsFirst(c, txns) == c.erc20_deposits \o outputsOf(txns)

\* Outputs first, then the deposits.
records_to_insert(c, txns) == outputsOf(txns) \o c.erc20_deposits

commitBlock(res, txns) ==
    LET c == res.state IN
    Ok([c EXCEPT !.leaves = @ \o records_to_insert(c, txns),
                 !.erc20_deposits = <<>>,
                 !.past_record_merkle_roots = pushRoot(c)],
       Append(res.effects, BlockCommitted(txns, c.erc20_deposits)))

SubmitBlock(res, op) ==
    LET txns == filtered_txns(res.state, op.txns)
    IN  Then(Then(checkTxns(res, txns), batchVerify, txns), commitBlock, txns)

submit_operations(c, ops) ==
    LET Run(res, op) == CASE op.op = "RegisterErc20" -> RegisterErc20(res, op)
                          [] op.op = "WrapErc20" -> WrapErc20(res, op)
                          [] op.op = "SubmitBlock" -> SubmitBlock(res, op)
    IN  FoldLeft(LAMBDA res, op : Then(res, Run, op),
                 Ok([c EXCEPT !.state_number = @ + 1], <<>>), ops)
=============================================================================
