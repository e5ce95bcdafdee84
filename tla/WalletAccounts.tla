--------------------------- MODULE WalletAccounts ---------------------------
(***************************************************************************)
(* Wallets that trade with each other: what the operations of              *)
(* wallet/src/wallet.rs and of the endpoints of wallet-api/routes.rs do to *)
(* records, balances and ERC-20 tokens, and the random wallet              *)
(* (bin/random-wallet-in-mem.rs, with wallet/src/testing.rs), which drives *)
(* several wallets and keeps a book of the balances it expects.            *)
(*                                                                         *)
(* Transactions are in flight until a block has them or they are rejected. *)
(* How the wallet library selects records is external: any selection from  *)
(* which no record can be left out.                                        *)
(***************************************************************************)
EXTENDS Naturals, Sequences, SequencesExt, FiniteSets, FiniteSetsExt

CONSTANTS
    Holders,           \* wallets
    Domestic,          \* asset codes for new assets
    FeeAsset,          \* AssetCode::native()
    WrappedAsset,      \* the sponsored asset
    NoHolder,
    InitialFees,       \* native tokens each wallet starts with
    Minted, WrappedAmount,
    MaxAccounts,       \* bound: sending keys of a wallet
    MaxTxns,           \* bound: transactions and wraps of users
    MaxRandomTxns,     \* bound: those of the random wallet
    MaxRejected,       \* bound: transactions rejected without a conflict
    MaxErrors          \* bound: errors after which the outcome is not known

VARIABLES
    driver,            \* who uses the wallets: "api", or the state of the random wallet
    accounts,          \* number of sending keys of a wallet
    issuer,            \* who has the minting, viewing and freezing keys of an asset
    unspent,           \* records of the ledger
    uids,              \* records ever created
    deposits,          \* records that wait for the next block
    inFlight,          \* transactions
    known,             \* records a wallet knows: its own and those it can view
    locked,            \* ERC-20 tokens in the contract
    minted, feesPaid,  \* history
    book,              \* the balances the random wallet expects
    awaited,           \* the transfer the random wallet waits for
    rejected, txnCount,
    errors             \* how often a caller was told of an error and the request had its effect

ledgerVars == <<unspent, uids, deposits, inFlight, known, locked, minted, feesPaid, rejected>>

accountVars == <<driver, accounts, issuer, ledgerVars, book, awaited, txnCount, errors>>

Codes == Domestic \cup {FeeAsset, WrappedAsset}

Fee == 1

Opening(owner, asset, amount, frozen) ==
    [owner |-> owner, asset |-> asset, amount |-> amount, frozen |-> frozen]

\* A record of the ledger: an opening and its position.
At(ro, uid) == [uid |-> uid, ro |-> ro]

Total(rs) == MapThenSumSet(LAMBDA r : r.ro.amount, rs)

funded ==
    LET first == CHOOSE f \in [Holders -> 1 .. Cardinality(Holders)] : \A v, w \in Holders :
                    v # w => f[v] # f[w]
    IN  {At(Opening(<<w, 1>>, FeeAsset, InitialFees, FALSE), first[w]) : w \in Holders}

\* Wallets with one account that were sent native tokens; the asset is sponsored,
\* and which wallet can view it makes no difference.
AccountsInit ==
    /\ driver \in {"api", "random"}
    /\ accounts = [w \in Holders |-> 1]
    /\ \E sponsor \in {NoHolder, CHOOSE w \in Holders : TRUE} :
          issuer = [c \in Domestic \cup {WrappedAsset} |->
                      IF c = WrappedAsset THEN sponsor ELSE NoHolder]
    /\ driver = "random" => issuer[WrappedAsset] = NoHolder
    /\ unspent = funded
    /\ uids = Cardinality(Holders)
    /\ deposits = <<>>
    /\ inFlight = {}
    /\ known = [w \in Holders |-> {r \in funded : r.ro.owner = <<w, 1>>}]
    /\ locked = 0
    /\ minted = [c \in Domestic |-> 0]
    /\ feesPaid = 0
    /\ book = [w \in Holders |-> [c \in Codes |-> IF c = FeeAsset THEN InitialFees ELSE 0]]
    /\ awaited = {}
    /\ rejected = 0 /\ txnCount = 0 /\ errors = 0

-----------------------------------------------------------------------------
(* Views                                                                   *)

owns(w, ro) == ro.owner[1] = w

\* Records in transactions of the wallet that are not settled.
onHold(w) == UNION {t.inputs : t \in {u \in inFlight : u.wallet = w}}

spendableRecords(w) == {r \in known[w] : owns(w, r.ro) /\ ~r.ro.frozen /\ r.uid \notin onHold(w)}

balance_breakdown(w, address, asset) ==
    Total({r \in spendableRecords(w) : r.ro.owner = address /\ r.ro.asset = asset})

pub_keys(w) == {<<w, i>> : i \in 1 .. accounts[w]}

by_account(w) ==
    [a \in pub_keys(w) |-> [c \in Codes |-> balance_breakdown(w, a, c)]]

\* Mutant: the last account replaces the sum.
lastAccount(w) == by_account(w)[<<w, accounts[w]>>]

\* getbalance/all
aggregate(w) ==
    [c \in Codes |-> MapThenSumSet(LAMBDA a : by_account(w)[a][c], pub_keys(w))]

viewable(w, ro) == ro.asset # FeeAsset /\ issuer[ro.asset] = w

\* An account as the server shows it, of a sending key or of a viewing key.
Account(rs, balances) == [records |-> rs, balances |-> balances]

sending_account(w, a) == Account({r \in known[w] : r.ro.owner = a}, by_account(w)[a])

viewing_account(w) ==
    LET rs == {r \in known[w] : viewable(w, r.ro)}
    IN  Account(rs, [c \in Codes |-> Total({r \in rs : r.ro.asset = c})])

\* getaccounts/all
getaccounts(w) == {sending_account(w, a) : a \in pub_keys(w)} \cup {viewing_account(w)}

-----------------------------------------------------------------------------
(* Building transactions.                                                  *)

selects(rs, amount) ==
    /\ Total(rs) >= amount
    /\ \A r \in rs : Total(rs \ {r}) < amount

BuiltTxn(kind, w, inputs, outputs) ==
    [kind |-> kind, wallet |-> w, inputs |-> {r.uid : r \in inputs}, outputs |-> outputs]

feeRecords(w) == {r \in spendableRecords(w) : r.ro.asset = FeeAsset /\ r.ro.amount >= Fee}

change(owner, asset, inputs, amount) ==
    IF Total(inputs) = amount THEN <<>>
    ELSE <<Opening(owner, asset, Total(inputs) - amount, FALSE)>>

feeChange(r) == Opening(r.ro.owner, FeeAsset, r.ro.amount - Fee, FALSE)

\* external: the outputs are the change of the fee, the receivers, the change.
build_transfer(w, asset, receiver, amount) ==
    LET from == {r \in spendableRecords(w) : r.ro.asset = asset}
        paid == Opening(receiver, asset, amount, FALSE)
    IN  IF asset = FeeAsset
        THEN {BuiltTxn("send", w, rs,
                  <<Opening(<<w, 1>>, FeeAsset, Total(rs) - amount - Fee, FALSE), paid>>) :
                rs \in {s \in SUBSET from : selects(s, amount + Fee)}}
        ELSE {BuiltTxn("send", w, rs \cup {f},
                  <<feeChange(f), paid>> \o change(<<w, 1>>, asset, rs, amount)) :
                rs \in {s \in SUBSET from : selects(s, amount)}, f \in feeRecords(w)}

countTxn ==
    /\ txnCount < IF driver = "api" THEN MaxTxns ELSE MaxRandomTxns
    /\ txnCount' = txnCount + 1

\* The caller sees an error although the request went through.  Bound: the errors
\* of the random wallet are followed, which keeps a book of what it was told.
answerLost == driver = "random" /\ errors < MaxErrors /\ errors' = errors + 1

\* The caller was not told of an error.
Answered == errors' = errors

\* external: when `submit' fails, the library lets go of the records; the relayer
\* may have the transaction all the same.
submitTxn(t) ==
    /\ countTxn
    /\ \/ Answered /\ inFlight' = inFlight \cup {t}
       \/ answerLost /\ inFlight' = inFlight \cup {[t EXCEPT !.wallet = NoHolder]}
    /\ UNCHANGED <<unspent, uids, deposits, known, locked, minted, feesPaid, rejected>>

transfer(w, asset, receiver, amount) ==
    \E t \in build_transfer(w, asset, receiver, amount) : submitTxn(t)

\* A transfer whose second output is withdrawn; it goes to the first account.
burn(w, asset, amount) ==
    /\ accounts[w] > 0
    /\ \E t \in build_transfer(w, asset, <<w, 1>>, amount) : submitTxn([t EXCEPT !.kind = "burn"])

mint(w, asset, amount, receiver) ==
    \E f \in feeRecords(w) :
       submitTxn(BuiltTxn("mint", w, {f}, <<feeChange(f), Opening(receiver, asset, amount, FALSE)>>))

\* Freezes or unfreezes records of an owner, enough for the amount.
freeze(w, asset, amount, owner, frozen) ==
    \E f \in feeRecords(w) :
    \E rs \in SUBSET {r \in viewing_account(w).records : /\ r.ro.asset = asset /\ r.ro.owner = owner
                                                         /\ r.ro.frozen # frozen
                                                         /\ r.uid \notin onHold(w)} :
       /\ selects(rs, amount) /\ amount > 0
       /\ submitTxn(BuiltTxn("freeze", w, rs \cup {f},
                     <<feeChange(f)>> \o SetToSeq({[r.ro EXCEPT !.frozen = frozen] : r \in rs})))

\* Pays the tokens of a deposit into the contract.
wrap(receiver, amount) ==
    /\ countTxn
    /\ Answered \/ answerLost
    /\ deposits' = Append(deposits, Opening(receiver, WrappedAsset, amount, FALSE))
    /\ locked' = locked + amount
    /\ UNCHANGED <<unspent, uids, inFlight, known, minted, feesPaid, rejected>>

-----------------------------------------------------------------------------
(* Blocks                                                                  *)

burned == 2

outputsOnLedger(t) ==
    IF t.kind = "burn" THEN RemoveAt(t.outputs, burned) ELSE t.outputs

\* Mutant: the burned output is taken for a record like the others.
allMemos(t) == Tail(t.outputs)

\* The outputs of a transaction that viewing keys open, without the change of
\* the fee; the burned output is not added to the ledger.
open_audit_memo(t) ==
    IF t.kind = "burn" THEN Tail(Tail(t.outputs)) ELSE Tail(t.outputs)

\* Openings take the positions of the outputs after the change of the fee.
viewedIn(w, t, first) ==
    LET openings == open_audit_memo(t)
    IN  {At(openings[i], first + i) :
           i \in {j \in DOMAIN openings : j < Len(outputsOnLedger(t)) /\ viewable(w, openings[j])}}

created(openings, first) == {At(openings[i], first + i - 1) : i \in DOMAIN openings}

ownedIn(w, new) == {r \in new : owns(w, r.ro)}

settle(t) ==
    LET outs == outputsOnLedger(t)
        spent(rs) == {r \in rs : r.uid \in t.inputs}
        first == uids + 1
        wrapped == created(deposits, first + Len(outs))
        new == created(outs, first) \cup wrapped
    IN  /\ unspent' = (unspent \ spent(unspent)) \cup new
        /\ uids' = uids + Len(outs) + Len(deposits)
        /\ deposits' = <<>>
        /\ known' = [w \in Holders |-> (known[w] \ spent(known[w])) \cup ownedIn(w, new)
                                       \cup viewedIn(w, t, first)]
        /\ locked' = IF t.kind = "burn" THEN locked - t.outputs[burned].amount ELSE locked
        /\ minted' = IF t.kind = "mint"
                     THEN [minted EXCEPT ![t.outputs[2].asset] = @ + t.outputs[2].amount]
                     ELSE minted
        /\ feesPaid' = feesPaid + Fee
        /\ inFlight' = inFlight \ {t}
        /\ UNCHANGED rejected

\* The contract withdraws wrapped assets only.
valid(t) ==
    /\ t.inputs \subseteq {r.uid : r \in unspent}
    /\ t.kind = "burn" => t.outputs[burned].asset = WrappedAsset

\* external: the relayer submits the transaction in a block.
mineTxn(t) == valid(t) /\ settle(t)

\* external: a conflict, or the transaction became too old.
rejectTxn(t) ==
    /\ ~valid(t) \/ rejected < MaxRejected
    /\ rejected' = rejected + 1
    /\ inFlight' = inFlight \ {t}
    /\ UNCHANGED <<unspent, uids, deposits, known, locked, minted, feesPaid>>

\* A block without transactions, for the deposits.
emptyBlock ==
    /\ deposits # <<>>
    /\ LET new == created(deposits, uids + 1) IN
       /\ unspent' = unspent \cup new
       /\ known' = [w \in Holders |-> known[w] \cup ownedIn(w, new)]
    /\ uids' = uids + Len(deposits)
    /\ deposits' = <<>>
    /\ UNCHANGED <<inFlight, locked, minted, feesPaid, rejected>>

nextBlock ==
    /\ \/ \E t \in inFlight : mineTxn(t) \/ rejectTxn(t)
       \/ emptyBlock
    /\ UNCHANGED <<driver, accounts, issuer, book, awaited, txnCount, errors>>
-----------------------------------------------------------------------------
(* Endpoints of the wallet server.                                         *)

userVars == <<driver, book, awaited>>

generate_user_key(w) ==
    /\ accounts[w] < MaxAccounts
    /\ accounts' = [accounts EXCEPT ![w] = @ + 1]
    /\ UNCHANGED <<issuer, ledgerVars, txnCount, errors>>

newkey(w) == generate_user_key(w)

\* Scans for records of the key; none was sent to it before it was there.
recoverkey(w) == generate_user_key(w)

addresses == UNION {pub_keys(w) : w \in Holders}

send(w) ==
    /\ \E c \in Codes, receiver \in addresses : transfer(w, c, receiver, 1)
    /\ UNCHANGED <<accounts, issuer>>

\* newasset, and mint by who defined the asset.
defineAndMint(w) ==
    /\ \E c \in Domestic, receiver \in addresses :
          /\ issuer[c] \in {w, NoHolder}
          /\ issuer' = [issuer EXCEPT ![c] = w]
          /\ mint(w, c, Minted, receiver)
    /\ UNCHANGED accounts

submitwrap(w) ==
    /\ \E receiver \in pub_keys(w) : wrap(receiver, WrappedAmount)
    /\ UNCHANGED <<accounts, issuer>>

unwrap(w) ==
    /\ \E c \in Codes, amount \in {1, WrappedAmount} : burn(w, c, amount)
    /\ UNCHANGED <<accounts, issuer>>

ApiUsers ==
    /\ driver = "api"
    /\ \E w \in Holders : \/ newkey(w) \/ recoverkey(w) \/ send(w)
                           \/ defineAndMint(w) \/ submitwrap(w) \/ unwrap(w)
    /\ UNCHANGED userVars

-----------------------------------------------------------------------------
(* The random wallet.                                                      *)

first(w) == <<w, 1>>

\* Defines a new asset and mints some; the asset stays if the mint fails, and
\* the caller cannot tell whether an error came before or after the submission.
mint_token(w, c) ==
    /\ issuer[c] = NoHolder
    /\ issuer' = [issuer EXCEPT ![c] = w]
    /\ \/ mint(w, c, Minted, first(w))
       \/ feeRecords(w) = {} /\ UNCHANGED <<ledgerVars, txnCount, errors>>

randomMint(w) ==
    /\ \E c \in Domestic :
          /\ mint_token(w, c)
          /\ book' = IF inFlight' # inFlight /\ Answered THEN [book EXCEPT ![w][c] = Minted] ELSE book
    /\ UNCHANGED <<driver, awaited>>

transfer_token(w, v, c, t) == t \in build_transfer(w, c, first(v), 1) /\ submitTxn(t)

\* Transfers one unit of an asset with a balance, and waits for the outcome; an
\* error is logged and the book is left alone.
randomTransfer(w) ==
    /\ \E v \in Holders \ {w}, c \in Codes :
          /\ balance_breakdown(w, first(w), c) > 0
          /\ \E t \in build_transfer(w, c, first(v), 1) :
                /\ transfer_token(w, v, c, t)
                /\ awaited' = IF Answered THEN {[txn |-> t, from |-> w, to |-> v, asset |-> c]}
                              ELSE {}
    /\ UNCHANGED <<driver, issuer, book>>

\* Mutant: the book does not credit the receiver.
noCredit(from, to, asset, amount) == [book EXCEPT ![from][asset] = @ - amount]

update_balances(from, to, asset, amount) ==
    [book EXCEPT ![from][asset] = @ - amount, ![to][asset] = @ + amount]

\* The book changes with the transfer, whether it succeeded or not; when waiting
\* itself fails it does not.
await_transaction ==
    /\ driver = "random"
    /\ \E a \in awaited :
          \/ /\ a.txn \notin inFlight
             /\ Answered
             /\ IF book[a.from][a.asset] >= 1
                THEN book' = update_balances(a.from, a.to, a.asset, 1) /\ UNCHANGED driver
                ELSE driver' = "panicked" /\ UNCHANGED book
          \/ answerLost /\ UNCHANGED <<book, driver>>
    /\ awaited' = {}
    /\ UNCHANGED <<accounts, issuer, ledgerVars, txnCount>>

\* Records of others that the wallet can freeze, or can unfreeze.
find_freezable_records(w, frozen) ==
    {r \in viewing_account(w).records : ~owns(w, r.ro) /\ r.ro.frozen = frozen}

freeze_token(w, r) == freeze(w, r.ro.asset, r.ro.amount, r.ro.owner, TRUE)

unfreeze_token(w, r) == freeze(w, r.ro.asset, r.ro.amount, r.ro.owner, FALSE)

randomFreeze(w) ==
    /\ \E r \in find_freezable_records(w, FALSE) : freeze_token(w, r)
    /\ UNCHANGED <<driver, issuer, book, awaited>>

randomUnfreeze(w) ==
    /\ \E r \in find_freezable_records(w, TRUE) : unfreeze_token(w, r)
    /\ UNCHANGED <<driver, issuer, book, awaited>>

add_balance(w, asset, amount) == [book EXCEPT ![w][asset] = @ + amount]

\* The status of the deposit is not looked at: it may have been reverted.
wrap_simple_token(w) ==
    \/ wrap(first(w), WrappedAmount)
    \/ countTxn /\ Answered /\ UNCHANGED ledgerVars

\* An error of the wrap is unwrapped: the program ends.
randomWrap(w) ==
    /\ wrap_simple_token(w)
    /\ IF Answered
       THEN book' = add_balance(w, WrappedAsset, WrappedAmount) /\ UNCHANGED driver
       ELSE driver' = "stopped" /\ UNCHANGED book
    /\ UNCHANGED <<issuer, awaited>>

\* What one of the records of the asset holds; the order of records is not fixed.
get_burn_amount(w, asset) == {r.ro.amount : r \in {k \in known[w] : k.ro.asset = asset}}

burn_token(w, amount) == burn(w, WrappedAsset, amount)

remove_balance(w, asset, amount) ==
    IF book[w][asset] >= amount
    THEN book' = [book EXCEPT ![w][asset] = @ - amount] /\ UNCHANGED driver
    ELSE driver' = "panicked" /\ UNCHANGED book

randomBurn(w) ==
    /\ \E amount \in get_burn_amount(w, WrappedAsset) :
          /\ burn_token(w, amount)
          /\ IF Answered THEN remove_balance(w, WrappedAsset, amount)
             ELSE UNCHANGED <<driver, book>>
    /\ UNCHANGED <<issuer, awaited>>

RandomWallet ==
    /\ driver = "random" /\ awaited = {}
    /\ \E w \in Holders : \/ randomMint(w) \/ randomTransfer(w) \/ randomFreeze(w)
                           \/ randomUnfreeze(w) \/ randomWrap(w) \/ randomBurn(w)
    /\ UNCHANGED accounts

AccountsNext == ApiUsers \/ RandomWallet \/ await_transaction \/ nextBlock

AccountsSpec == AccountsInit /\ [][AccountsNext]_accountVars

-----------------------------------------------------------------------------
(* Properties                                                              *)

frozenRecords == {r \in unspent : r.ro.frozen}

heldRecords == {r \in unspent \ frozenRecords : r.uid \in onHold(r.ro.owner[1])}

supply(c) ==
    CASE c = FeeAsset -> InitialFees * Cardinality(Holders) - feesPaid
      [] c = WrappedAsset -> locked - FoldSeq(LAMBDA d, n : d.amount + n, 0, deposits)
      [] OTHER -> minted[c]

\* The balances that getbalance/all shows in all wallets, with what is frozen
\* and what transactions hold, are what was funded, minted and wrapped less
\* what was burned and paid in fees.
SupplyAccountedFor ==
    \A c \in Codes :
        MapThenSumSet(LAMBDA w : aggregate(w)[c], Holders)
          + Total({r \in frozenRecords \cup heldRecords : r.ro.asset = c}) = supply(c)

\* The accounts a wallet shows have no record that is not on the ledger: a
\* viewer is shown "the change record from the unwrap, but _not_ the burned
\* record" (mocks.rs, test_unwrap_viewing), and an owner what a freezer left.
ShownRecordsExist ==
    \A w \in Holders : \A a \in getaccounts(w) : a.records \subseteq unspent

\* The assertions of the random wallet on its book ("only has {} balance but
\* is trying to send", update_balances of random-wallet-in-mem.rs) fail only
\* after it misjudged an outcome: a rejected transfer that it booked, or an error
\* that it took for a failure while the request had its effect.  Freezing,
\* spending in any order, wraps and burns alone never exhaust the book.
BookCoversTransfers == driver = "panicked" => rejected > 0 \/ errors > 0
=============================================================================
