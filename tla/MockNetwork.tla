---------------------------- MODULE MockNetwork ----------------------------
(***************************************************************************)
(* The ledger the wallet is tested against (wallet/src/mocks.rs): the      *)
(* contract model, and a query service fed with the events it emits.  A    *)
(* wallet created at some moment follows the events from there with the    *)
(* trusting validator of contracts/rust/src/ledger.rs, and the replaying   *)
(* backend rebuilds its state from all of them.                            *)
(*                                                                         *)
(* A receiver memo stands for the output record it is addressed to.        *)
(***************************************************************************)
EXTENDS CapeModel

CONSTANTS
    InitialGrants,     \* records in the tree at the start
    InitialOps,        \* operations that set up a test
    Ids,               \* blinding factors of new records
    MaxCalls           \* bound: calls of the network

VARIABLES
    net,               \* MockCapeNetwork
    wallet,            \* the validator of a wallet and its position in the events
    escrow,            \* history: tokens received and not sent back
    calls

mockVars == <<net, wallet, escrow, calls>>

-----------------------------------------------------------------------------
(* CapeTransition                                                          *)

Wrap(ro) == [kind |-> "Wrap", ro |-> ro]

output_commitments(t) == IF t.kind = "Wrap" THEN <<t.ro>> ELSE commitments(t)

output_len(t) == Len(output_commitments(t))

MemosEvent(outputs, transaction) ==
    [event |-> "Memos", outputs |-> outputs, transaction |-> transaction]

CommitEvent(block, height) ==
    [event |-> "Commit", block |-> block, block_id |-> height, state_comm |-> height + 1]

Output(memo, comm, uid) == [memo |-> memo, comm |-> comm, uid |-> uid]

newNetwork(grants) ==
    [contract |-> CapeContractState(grants),
     call_data |-> {},
     block_height |-> 0,
     records |-> grants,
     pending_erc20_deposits |-> {},
     events |-> <<MemosEvent([i \in DOMAIN grants |-> Output(grants[i], grants[i], i)],
                             <<>>)>>,
     txns |-> <<>>,
     panicked |-> FALSE]

-----------------------------------------------------------------------------
(* The query service.                                                      *)

generate_event(n, event) == [n EXCEPT !.events = Append(@, event)]

\* The positions of the outputs of the i-th transition of a block.
uidsFrom(first, block, i) ==
    LET before == first + Len(FlattenSeq([j \in 1 .. i - 1 |-> output_commitments(block[j])]))
    IN  [k \in 1 .. output_len(block[i]) |-> before + k]

panic(n) == [n EXCEPT !.panicked = TRUE]

\* Memos of wraps are refused, and so is a wrong number of memos.
post_memos(n, block_id, txn_id, memos) ==
    LET committed == n.txns[block_id + 1][txn_id]
        outputs == [k \in DOMAIN committed.uids |->
                      Output(memos[k], output_commitments(committed.txn)[k],
                             committed.uids[k])]
    IN  IF committed.txn.kind = "Wrap" \/ Len(memos) # output_len(committed.txn)
        THEN panic(n)
        ELSE generate_event(n, MemosEvent(outputs, <<block_id, txn_id>>))

\* Publishes the memos of a block that are in the call data.
postBlockMemos(n, block) ==
    FoldLeft(LAMBDA m, i :
                IF \E d \in m.call_data : d.uid = block[i] THEN
                  LET d == CHOOSE d \in m.call_data : d.uid = block[i]
                  IN  post_memos([m EXCEPT !.call_data = @ \ {d}], m.block_height, i, d.memos)
                ELSE m,
             n, [i \in DOMAIN block |-> i])

(***************************************************************************)
(* A deposit is looked up, and removed, by its commitment: of two equal    *)
(* ones the second is not found.  The panic leaves the ones before it      *)
(* removed.                                                                *)
(***************************************************************************)
BlockCommittedEvent(n, event) ==
    LET wraps == event.wraps
        missing == {i \in DOMAIN wraps : \/ wraps[i] \notin n.pending_erc20_deposits
                                        \/ \E j \in 1 .. i - 1 : wraps[j] = wraps[i]}
        found == {wraps[i] : i \in {j \in DOMAIN wraps : \A k \in missing : j < k}}
        block == event.txns \o [i \in DOMAIN wraps |-> Wrap(wraps[i])]
        removed == [n EXCEPT !.pending_erc20_deposits = @ \ found]
        committed == [i \in DOMAIN block |->
                        [txn |-> block[i], uids |-> uidsFrom(Len(n.records), block, i)]]
        stored == [removed EXCEPT
                     !.records = @ \o FlattenSeq([i \in DOMAIN block |->
                                                    output_commitments(block[i])]),
                     !.txns = Append(@, committed)]
        posted == postBlockMemos(generate_event(stored, CommitEvent(block, n.block_height)),
                                 block)
    IN  IF missing # {} THEN panic(removed)
        ELSE [posted EXCEPT !.block_height = @ + 1]

Erc20DepositedEvent(n, event) ==
    [n EXCEPT !.pending_erc20_deposits = @ \cup {event.ro}]

handle_event(n, event) ==
    IF n.panicked THEN n
    ELSE CASE event.effect = "BlockCommitted" -> BlockCommittedEvent(n, event)
           [] event.effect = "Erc20Deposited" -> Erc20DepositedEvent(n, event)
           [] OTHER -> n

\* The contract moves on after its events were handled.
submitOperations(n, ops) ==
    LET result == submit_operations(n.contract, ops)
        handled == FoldLeft(handle_event, n, result.effects)
    IN  IF result.error # "none" THEN n
        ELSE IF handled.panicked THEN [handled EXCEPT !.panicked = FALSE]
        ELSE [handled EXCEPT !.contract = result.state]

-----------------------------------------------------------------------------
(* The validator of a wallet.                                              *)

CapeTruster(now, num_records) == [now |-> now, num_records |-> num_records]

create_wallet(n) ==
    [validator |-> CapeTruster(n.block_height, Len(n.records)),
     now |-> Len(n.events),
     assigned |-> {},          \* uids given to the outputs of transactions
     nullifiers |-> <<>>]      \* CapeNullifierSet: known to be in, or not in, the set

insertNullifier(set, n, spent) ==
    [m \in DOMAIN set \cup {n} |-> IF m = n THEN spent ELSE set[m]]

\* The nullifiers of a block are in the set.
multi_insert(set, published) ==
    [m \in DOMAIN set \cup published |-> m \in published \/ set[m]]

proven_nullifiers(t) == IF t.kind = "Wrap" THEN <<>> ELSE t.nullifiers

nullifiersOf(block) == ToSet(FlattenSeq([i \in DOMAIN block |-> proven_nullifiers(block[i])]))

outputCount(block) == FoldLeft(LAMBDA n, t : n + output_len(t), 0, block)

\* The next uids go to the outputs of the block, in order.
predictedUids(v, block) == [k \in 1 .. outputCount(block) |-> v.num_records + k]

validate_and_apply(v, block) ==
    CapeTruster(v.now + 1, v.num_records + outputCount(block))

handleEvent(w, event) ==
    LET next == [w EXCEPT !.now = @ + 1]
        uids == predictedUids(w.validator, event.block)
    IN  IF event.event = "Memos" THEN next
        ELSE [next EXCEPT !.validator = validate_and_apply(@, event.block),
                          !.nullifiers = multi_insert(@, nullifiersOf(event.block)),
                          !.assigned = @ \cup {<<event.block_id, uids>>}]

\* ReplayBackend::create; it starts from an empty tree.
replay(events) ==
    FoldLeft(LAMBDA v, e : IF e.event = "Commit" THEN validate_and_apply(v, e.block) ELSE v,
             CapeTruster(0, 0), events)

-----------------------------------------------------------------------------
tokens(effects, effect, e) ==
    Cardinality({i \in DOMAIN effects : effects[i].effect = effect /\ effects[i].erc20 = e})

MockInit ==
    /\ \E grants \in InitialGrants, ops \in InitialOps :
          /\ net = submitOperations(newNetwork(grants), ops)
          /\ escrow = [e \in Erc20Codes |->
                tokens(submit_operations(CapeContractState(grants), ops).effects,
                       "ReceiveErc20", e)]
    /\ wallet = create_wallet(net)
    /\ calls = 0

movedTokens(n, m, ops) ==
    LET effects == submit_operations(n.contract, ops).effects IN
    IF m.contract = n.contract THEN escrow
    ELSE [e \in Erc20Codes |-> escrow[e] + tokens(effects, "ReceiveErc20", e)
                                         - tokens(effects, "SendErc20", e)]

Submit(n, ops) ==
    /\ calls < MaxCalls
    /\ calls' = calls + 1
    /\ net' = submitOperations(n, ops)
    /\ escrow' = movedTokens(n, net', ops)
    /\ UNCHANGED wallet

register_erc20 ==
    \E asset \in ForeignAssets, sponsor \in Sponsors :
        Submit(net, <<[op |-> "RegisterErc20", asset |-> asset, erc20 |-> asset.erc20,
                       sponsor |-> sponsor]>>)

WrapOp(ro, erc20) == [op |-> "WrapErc20", erc20 |-> erc20, ro |-> ro]

wrap_erc20 ==
    \E asset \in ForeignAssets, id \in Ids, erc20 \in Erc20Codes :
        Submit(net, <<WrapOp([asset |-> asset, id |-> id], erc20)>>)

(***************************************************************************)
(* The transactions a wallet may build: its inputs are leaves, its root    *)
(* one it has seen.  Amounts are one, so each output is worth one input,   *)
(* and a burn and a mint pay their fee with the first input.               *)
(***************************************************************************)
Txn(kind, bound, inputs, outputs, root, valid_until) ==
    [kind |-> kind, bound |-> bound, nullifiers |-> inputs, outputs |-> outputs,
     root |-> root, valid_until |-> valid_until,
     ro |-> IF Len(outputs) > 1 THEN outputs[2] ELSE outputs[1]]

leaf(n) == net.records[n]

Leaves == 1 .. Len(net.records)

OldestRoot == IF net.contract.past_record_merkle_roots = <<>> THEN Len(net.records)
              ELSE Last(net.contract.past_record_merkle_roots)

newRecord(asset) == [asset |-> asset, id |-> net.contract.state_number]

transferTxns(n) ==
    {Txn("Transfer", "none", <<n>>, <<newRecord(leaf(n).asset)>>, root,
         net.contract.state_number + life) :
       root \in {OldestRoot, Len(net.records)}, life \in {0, 1}}

freezeTxn(n) ==
    Txn("Freeze", "none", <<n>>, <<newRecord(leaf(n).asset)>>, Len(net.records),
        net.contract.state_number + 1)

\* Two inputs and two outputs: the fee, and what is transferred, burned or frozen.
pairTxn(kind, f, n) ==
    Txn(kind, "burn", <<f, n>>, <<newRecord(leaf(f).asset), newRecord(leaf(n).asset)>>,
        Len(net.records), net.contract.state_number + 1)

mintTxn(f) ==
    Txn("Mint", "none", <<f>>, <<newRecord(leaf(f).asset), newRecord(domestic)>>,
        Len(net.records), net.contract.state_number + 1)

Txns ==
    UNION {transferTxns(n) \cup {freezeTxn(n), mintTxn(n)} : n \in Leaves}
    \cup {pairTxn(kind, f, n) : kind \in {"Burn", "Transfer", "Freeze"}, f \in Leaves, n \in Leaves}

\* A submission stores the memos of the transactions with their uids.
store_call_data(n, txns) ==
    [n EXCEPT !.call_data = @ \cup {[uid |-> t, memos |-> output_commitments(t)]
                                      : t \in ToSet(txns)}]

\* MockNetwork::submit makes a block of its own of every transaction.
blocksOf(txns) == [i \in DOMAIN txns |-> [op |-> "SubmitBlock", txns |-> <<txns[i]>>]]

submit ==
    \E t \in Txns :
        Submit(store_call_data(net, <<t>>), blocksOf(<<t>>))

submitTwo ==
    \E n \in Leaves, m \in Leaves :
        LET txns == <<mintTxn(n), freezeTxn(m)>> IN
        \/ Submit(store_call_data(net, txns), blocksOf(txns))
        \/ Submit(store_call_data(net, txns), <<[op |-> "SubmitBlock", txns |-> txns]>>)

createWallet ==
    /\ wallet.now < Len(net.events)
    /\ wallet' = create_wallet(net)
    /\ UNCHANGED <<net, escrow, calls>>

\* The wallet takes the events of its subscription, one after the other.
subscribe ==
    /\ wallet.now < Len(net.events)
    /\ wallet' = FoldLeft(handleEvent, wallet,
                          SubSeq(net.events, wallet.now + 1, Len(net.events)))
    /\ UNCHANGED <<net, escrow, calls>>

get_transaction(block_id, txn_id) == net.txns[block_id + 1][txn_id].txn

get_wrapped_asset(asset) ==
    {a.erc20 : a \in net.contract.erc20_registrar \cap {asset}}

nullifier_spent(n) == n \in net.contract.nullifiers

\* A nullifier that is not in the wallet's set is looked up in the contract, and
\* the answer is kept; the real backend asks the query service and keeps nothing.
get_nullifier_proof ==
    \E n \in Leaves \ DOMAIN wallet.nullifiers :
        /\ calls < MaxCalls
        /\ calls' = calls + 1
        /\ wallet' = [wallet EXCEPT !.nullifiers = insertNullifier(@, n, nullifier_spent(n))]
        /\ UNCHANGED <<net, escrow>>

MockNext ==
    \/ register_erc20
    \/ wrap_erc20
    \/ submit
    \/ submitTwo
    \/ createWallet
    \/ subscribe
    \/ get_nullifier_proof

MockSpec == MockInit /\ [][MockNext]_mockVars

-----------------------------------------------------------------------------
(* Properties                                                              *)

\* The tree of the query service is the tree of the contract: both compute
\* the order of outputs and deposits, from the operations and from the event
\* (handle_event, "in the order they were processed by the contract").
LedgerFollowsContract == net.records = net.contract.leaves

\* Every memo that is broadcast is for the record at its position in the tree.
MemosAtTheirRecords ==
    \A i \in DOMAIN net.events :
        net.events[i].event = "Memos" =>
            \A o \in ToSet(net.events[i].outputs) :
                o.memo = o.comm /\ net.records[o.uid] = o.comm

uidsOfBlock(block_id) ==
    FlattenSeq([i \in DOMAIN net.txns[block_id + 1] |-> net.txns[block_id + 1][i].uids])

\* The uids the validator of a wallet predicts for the outputs of a
\* transaction are the ones the query service gave them, and a wallet that
\* has seen every event agrees with the service on height and size.
WalletPredictsUids ==
    /\ \A a \in wallet.assigned : uidsOfBlock(a[1]) = a[2]
    /\ wallet.now = Len(net.events) =>
          wallet.validator = CapeTruster(net.block_height, Len(net.records))

\* What a wallet keeps of the nullifier set stays true: a published nullifier is
\* never taken back, and an unpublished one that a later block publishes is
\* corrected by that block at the latest.
CachedNullifiersTrue ==
    \A n \in DOMAIN wallet.nullifiers :
        /\ wallet.nullifiers[n] => nullifier_spent(n)
        /\ wallet.now = Len(net.events) => (wallet.nullifiers[n] <=> nullifier_spent(n))

\* Replaying all events from an empty ledger ends in the state of the ledger.
ReplayEndsInLedger ==
    Len(net.events[1].outputs) = 0 =>
        replay(net.events) = CapeTruster(net.block_height, Len(net.records))

\* A wallet that asks for a transaction of a block gets the one its event had,
\* and every deposit that waits has an asset the service knows the token of.
QueriesFollowEvents ==
    /\ \A e \in ToSet(net.events) : e.event = "Commit" =>
          \A i \in DOMAIN e.block : get_transaction(e.block_id, i) = e.block[i]
    /\ \A ro \in net.pending_erc20_deposits : get_wrapped_asset(ro.asset) = {ro.asset.erc20}

\* The four copies of the ledger agree: the contract's tree, the one the query
\* service builds from the events, the validator of a wallet that follows them,
\* and a replay of all events (contracts/rust/src/ledger.rs, mocks.rs); every
\* memo the service broadcasts is for the record at its position, and what the
\* wallet keeps of the nullifier set is true once it has seen every event.
LedgersAgree ==
    /\ LedgerFollowsContract /\ WalletPredictsUids /\ ReplayEndsInLedger
    /\ MemosAtTheirRecords /\ CachedNullifiersTrue /\ QueriesFollowEvents

spendable(asset) ==
    {n \in 1 .. Len(net.contract.leaves) :
        net.contract.leaves[n].asset = asset /\ n \notin net.contract.nullifiers}

\* Tokens received and not sent back are worth the unspent wrapped records
\* and the deposits that wait for a block: a record is spent once, and a
\* burned one does not stay in the tree.
TokensBackRecords ==
    \A e \in Erc20Codes :
        escrow[e] = Cardinality({n \in 1 .. Len(net.contract.leaves) :
                                    \E a \in ForeignAssets : a.erc20 = e /\ n \in spendable(a)})
                    + Len(SelectSeq(net.contract.erc20_deposits,
                                    LAMBDA ro : ro.asset.erc20 = e))

\* The size of the tree when the chain had the given height.
rootAtHeight(h) ==
    Len(net.events[1].outputs)
        + Len(FlattenSeq([i \in 1 .. h |-> uidsOfBlock(i - 1)]))

\* A root is accepted for as many blocks as a wallet relies on
\* (Ledger::record_root_history is CAPE_NUM_ROOTS, and so is the life of a
\* transaction): CAPE_NUM_ROOTS blocks after the one that replaced it.
RootsOutliveTransactions ==
    \A h \in 0 .. net.block_height :
        net.block_height <= h + CAPE_NUM_ROOTS => acceptedRoot(net.contract, rootAtHeight(h))
=============================================================================
