-------------------------------- MODULE CAPE --------------------------------
(***************************************************************************)
(* contracts/contracts/CAPE.sol with the contracts it inherits from        *)
(* (RootStore, AssetRegistry, OpenZeppelin's ReentrancyGuard) and the      *)
(* contracts it calls (the records Merkle tree, the proof verifier, the    *)
(* ERC-20 tokens).                                                         *)
(*                                                                         *)
(* Abstractions.  A record commitment is the record opening it commits to. *)
(* The tree is the sequence of its leaves; a root is a hash of the whole   *)
(* tree, which only grows, so the number of leaves stands for it (zero is  *)
(* the empty tree).  The nullifier of a record is the position of its      *)
(* leaf: it is a hash of that position and of the owner's secret key.      *)
(*                                                                         *)
(* Execution.  A call of the contract is not one step.  A token contract   *)
(* runs its own code when the contract calls it, and that code can call    *)
(* the contract again.  `frames' is the stack of the calls in progress,    *)
(* the innermost first, each with the state it started from: a call that   *)
(* fails puts this state back.  A call whose first checks fail changes     *)
(* nothing and is no step at all.  The notes of a block are chosen when    *)
(* the loop over noteTypes reaches them, since the caller chooses them     *)
(* freely and the loop never looks ahead.                                  *)
(***************************************************************************)
EXTENDS RootStore, AssetRegistry, Lists, FiniteSets, SequencesExt, FiniteSetsExt

CONSTANTS
    Users,                    \* externally owned accounts
    deployer,                 \* the account that ran the constructor
    CapeAddress,              \* the address of this contract
    ReentrantTokens,          \* tokens whose code calls this contract back
    Amounts,                  \* amounts of a record
    FaucetAmount,             \* type(uint128).max / 2
    MAX_NUM_PENDING_DEPOSIT,  \* 10
    TreeCapacity,             \* 3 ** height of the records Merkle tree
    VkIds,                    \* <<note type, inputs, outputs>> with a verifying key
    InitialBalance,           \* what each user owns of each honest token
    ZeroCommitment,           \* a zero in the array of commitments
    OutputLists,              \* bound: the output lists that notes have
    MaxInputs,                \* bound: inputs of a note (3 in the code)
    MaxNotes,                 \* bound: notes of a block
    MaxSpare,                 \* bound: unused room in the array of commitments
    MaxHeight                 \* bound: blocks

\* Tokens that move exactly what they are asked to move.
HonestTokens == Erc20Addresses \ ReentrantTokens

Accounts == Users \cup Erc20Addresses \cup {CapeAddress}

Records ==
    [assetDef : AssetDefinitions, amount : Amounts, freezeFlag : BOOLEAN]

Leaves == Records \cup {ZeroCommitment}

NoteTypes == {"TRANSFER", "MINT", "FREEZE", "BURN"}

(***************************************************************************)
(* The last conjunct is the table of VerifyingKeys.sol: a mint has one     *)
(* input and two outputs, a freeze as many outputs as inputs.              *)
(***************************************************************************)
ASSUME CapeAssumption ==
    /\ deployer \in Users
    /\ CapeAddress \notin Users \cup Erc20Addresses \cup {ZeroAddress}
    /\ ReentrantTokens \subseteq Erc20Addresses
    /\ Users \cup ReentrantTokens \subseteq Sponsors
    /\ Amounts \subseteq Nat /\ FaucetAmount \in Amounts
    /\ MAX_NUM_PENDING_DEPOSIT \in Nat
    /\ TreeCapacity \in Nat
    /\ VkIds \subseteq NoteTypes \X Nat \X Nat
    /\ InitialBalance \in Nat
    /\ ZeroCommitment \notin Records
    /\ OutputLists \subseteq Seq(Records)
    /\ {MaxInputs, MaxNotes, MaxSpare, MaxHeight} \subseteq Nat
    /\ 1 .. TreeCapacity \subseteq RootValues /\ ZeroRoot = 0
    /\ \A vk \in VkIds : /\ vk[3] >= 2
                         /\ vk[1] = "MINT" => vk[2] = 1 /\ vk[3] = 2
                         /\ vk[1] = "FREEZE" => vk[2] = vk[3]

VARIABLES
    nullifiers,         \* leaf positions whose nullifier is published
    blockHeight,        \* uint64
    pendingDeposits,    \* record commitments to insert with the next block
    faucetInitialized,  \* BOOLEAN
    status,             \* ReentrancyGuard's _status
    tree,               \* the leaves of the records Merkle tree
    balances,           \* external: balances of the honest tokens
    log,                \* the events emitted, in order
    frames              \* calls in progress, innermost first

contractVars ==
    <<nullifiers, blockHeight, pendingDeposits, status, tree, balances, log,
      assets, rsVars>>

vars == <<contractVars, faucetInitialized, frames>>

-----------------------------------------------------------------------------
(* The state a call starts from.                                           *)

\* The EVM state that a failing call restores.
Snapshot ==
    [nullifiers |-> nullifiers, blockHeight |-> blockHeight,
     pendingDeposits |-> pendingDeposits, status |-> status, tree |-> tree,
     balances |-> balances, log |-> log, assets |-> assets, roots |-> roots,
     rootsMap |-> rootsMap, writeHead |-> writeHead, added |-> added]

Idle == frames = << >>

\* The events of completed transactions: nothing of a call in progress counts.
CommittedLog == IF Idle THEN log ELSE Last(frames).saved.log

Log == INSTANCE CapeLog WITH log <- CommittedLog

top == Head(frames)

Running(fn) == ~Idle /\ top.fn = fn

(***************************************************************************)
(* Who may call: when nothing runs, a user or a contract that a user       *)
(* called; during a call, only the token that the call is waiting for.     *)
(***************************************************************************)
MayCall(sender) ==
    IF Idle THEN sender \in Users \cup ReentrantTokens
            ELSE sender = top.callee /\ sender \in ReentrantTokens

\* external: SafeTransferLib on a token.  A call to address(0), where there
\* is no code, succeeds and moves nothing; the books of a token that is not
\* honest say nothing.
Transfer(token, from, to, amount) ==
    IF token \in HonestTokens
    THEN LET debited == [balances EXCEPT ![token][from] = @ - amount]
         IN  /\ balances[token][from] >= amount
             /\ balances' = [debited EXCEPT ![token][to] = @ + amount]
    ELSE UNCHANGED balances

Init ==
    /\ RootStoreInit
    /\ AssetsInit
    /\ nullifiers = {}
    /\ blockHeight = 0
    /\ pendingDeposits = << >>
    /\ faucetInitialized = FALSE
    /\ status = "NOT_ENTERED"
    /\ tree = << >>
    /\ balances = [t \in HonestTokens |->
                     [a \in Accounts |-> IF a \in Users THEN InitialBalance ELSE 0]]
    /\ log = << >>
    /\ frames = << >>

-----------------------------------------------------------------------------
(* Helpers of CAPE.sol.                                                    *)

\* _deriveRecordCommitment reverts when the reveal map is too wide.
HasCommitment(ro) == ro.assetDef.policy \notin WidePolicies

\* Mutant: a nullifier may be published again.
publishAgain(newNullifiers) == nullifiers' = nullifiers \cup ToSet(newNullifiers)

\* _publish: every nullifier is unpublished, those of the same note included.
publish(newNullifiers) ==
    /\ IsInjective(newNullifiers)
    /\ ToSet(newNullifiers) \cap nullifiers = {}
    /\ nullifiers' = nullifiers \cup ToSet(newNullifiers)

isExpired(validUntil) == validUntil < blockHeight

\* What the bytes bound to a proof start with.
ExtraData == {"plain", "burn prefix"}

checkTransfer(extra) == extra # "burn prefix"

\* _checkBurn: the prefix, and the opening is that of the second output.
checkBurn(extra, outputs, ro) ==
    /\ extra = "burn prefix"
    /\ Len(outputs) >= 2
    /\ HasCommitment(ro)
    /\ outputs[2] = ro

HasVerifyingKey(noteType, inputs, outputs) ==
    <<noteType, Len(inputs), Len(outputs)>> \in VkIds

\* updateRecordsMerkleTree and the _addRoot that follows it.
InsertLeaves(items) ==
    /\ Len(tree) + Len(items) <= TreeCapacity
    /\ tree' = tree \o items
    /\ AddRoot(Len(tree) + Len(items))

-----------------------------------------------------------------------------
(***************************************************************************)
(* external: what a proof accepted by _verifier.batchVerify establishes    *)
(* about the public inputs, for each circuit of the CAP library.  The      *)
(* first input and the first output are the native record that pays the    *)
(* fee and its change.                                                     *)
(***************************************************************************)
Total(list, assetDef) ==
    SumTo([i \in DOMAIN list |->
            IF list[i].assetDef = assetDef THEN list[i].amount ELSE 0], Len(list))

\* The inputs are leaves of the tree that the root stands for.
InTree(root, inputs) ==
    \A i \in DOMAIN inputs : inputs[i] \in 1 .. root /\ tree[inputs[i]] # ZeroCommitment

Opened(inputs) == [i \in DOMAIN inputs |-> tree[inputs[i]]]

PaysFee(ins, outs) ==
    /\ ins[1].assetDef = NativeAsset /\ outs[1].assetDef = NativeAsset
    /\ Total(ins, NativeAsset) >= Total(outs, NativeAsset)

TransferProof(root, inputs, outputs) ==
    /\ InTree(root, inputs)
    /\ PaysFee(Opened(inputs), outputs)
    /\ \A i \in DOMAIN inputs : ~tree[inputs[i]].freezeFlag
    /\ \A i \in DOMAIN outputs : ~outputs[i].freezeFlag
    /\ \E a \in AssetDefinitions :
          \A i \in DOMAIN outputs : outputs[i].assetDef \in {a, NativeAsset}
    /\ \A a \in AssetDefinitions \ {NativeAsset} :
          Total(Opened(inputs), a) = Total(outputs, a)

MintProof(root, inputs, outputs, mintAssetDef) ==
    /\ InTree(root, inputs)
    /\ PaysFee(Opened(inputs), <<outputs[1]>>)
    /\ outputs[2].assetDef = mintAssetDef
    /\ ~outputs[2].freezeFlag

FreezeProof(root, inputs, outputs) ==
    /\ InTree(root, inputs)
    /\ PaysFee(Opened(inputs), outputs)
    /\ \A i \in 2 .. Len(inputs) :
          /\ tree[inputs[i]].assetDef.policy # NativePolicy
          /\ outputs[i] = [tree[inputs[i]] EXCEPT !.freezeFlag = ~@]

-----------------------------------------------------------------------------
(* Calls that complete in one step: they call no token.                    *)

faucetSetupForTestnet(sender) ==
    LET ro == [assetDef |-> NativeAsset, amount |-> FaucetAmount, freezeFlag |-> FALSE]
    IN  /\ Idle
        /\ sender = deployer
        /\ ~faucetInitialized
        /\ InsertLeaves(<<ro>>)
        /\ log' = Append(log, Log!FaucetEvent(ro))
        /\ faucetInitialized' = TRUE
        /\ UNCHANGED <<nullifiers, blockHeight, pendingDeposits, status, balances,
                       assets, frames>>

\* Not guarded by nonReentrant: a token may call it in the middle of a call.
sponsorCapeAsset(sender, erc20Address, newAsset) ==
    /\ MayCall(sender)
    /\ RegisterAsset(sender, erc20Address, newAsset)
    /\ log' = Append(log, Log!SponsorEvent(erc20Address, newAsset))
    /\ UNCHANGED <<nullifiers, blockHeight, pendingDeposits, faucetInitialized,
                   status, tree, balances, rsVars, frames>>

-----------------------------------------------------------------------------
(* depositErc20: up to the call of the token, and after it.                *)

\* Mutant: the modifier is missing.
unguarded == TRUE

nonReentrant == status = "NOT_ENTERED"

queueFull == Len(pendingDeposits) >= MAX_NUM_PENDING_DEPOSIT

depositErc20(sender, ro, erc20Address) ==
    /\ MayCall(sender)
    /\ nonReentrant
    /\ isCapeAssetRegistered(ro.assetDef)
    /\ lookup(ro.assetDef) = erc20Address
    /\ ~queueFull
    /\ HasCommitment(ro)
    /\ status' = "ENTERED"
    /\ pendingDeposits' = Append(pendingDeposits, ro)
    /\ frames' = <<[fn |-> "depositErc20", callee |-> erc20Address, opening |-> ro,
                    sender |-> sender, saved |-> Snapshot]>> \o frames
    /\ UNCHANGED <<nullifiers, blockHeight, faucetInitialized, tree, balances, log,
                   assets, rsVars>>

depositErc20Returns ==
    /\ Running("depositErc20")
    /\ Transfer(top.callee, top.sender, CapeAddress, top.opening.amount)
    /\ log' = Append(log, Log!DepositEvent(top.opening, top.sender))
    /\ status' = "NOT_ENTERED"
    /\ frames' = Tail(frames)
    /\ UNCHANGED <<nullifiers, blockHeight, pendingDeposits, faucetInitialized, tree,
                   assets, rsVars>>

-----------------------------------------------------------------------------
(***************************************************************************)
(* submitCapeBlock.  The array of commitments is created with room for     *)
(* every output of the arrays of notes and for the deposits pending at     *)
(* that moment; `spare' counts the outputs of notes that noteTypes does    *)
(* not reach.                                                              *)
(***************************************************************************)
submitCapeBlock(sender, spare) ==
    /\ MayCall(sender)
    /\ nonReentrant
    /\ status' = "ENTERED"
    /\ frames' = <<[fn |-> "submitCapeBlock", callee |-> ZeroAddress, notes |-> << >>,
                    commitments |-> << >>, verified |-> TRUE,
                    spare |-> spare,
                    numPending |-> Len(pendingDeposits), saved |-> Snapshot]>> \o frames
    /\ UNCHANGED <<nullifiers, blockHeight, pendingDeposits, faucetInitialized, tree,
                   balances, log, assets, rsVars>>

\* What one round of the loop over noteTypes does for every type of note.
Note(noteType, root, inputs, inserted, proof, callee) ==
    /\ Running("submitCapeBlock")
    /\ Len(top.notes) < MaxNotes
    /\ ContainsRoot(root)
    /\ publish(inputs)
    /\ frames' = <<[top EXCEPT !.notes = Append(@, [type |-> noteType, spent |-> inputs,
                                                    outputs |-> inserted]),
                               !.commitments = @ \o inserted,
                               !.verified = @ /\ proof,
                               !.callee = callee]>> \o Tail(frames)
    /\ UNCHANGED <<blockHeight, pendingDeposits, faucetInitialized, status, tree, log,
                   assets, rsVars>>

transferNote(root, inputs, outputs, validUntil, extra) ==
    /\ checkTransfer(extra)
    /\ ~isExpired(validUntil)
    /\ HasVerifyingKey("TRANSFER", inputs, outputs)
    /\ Note("TRANSFER", root, inputs, outputs, TransferProof(root, inputs, outputs), ZeroAddress)
    /\ UNCHANGED balances

mintNote(root, inputs, outputs, mintAssetDef, internalAssetCode) ==
    /\ IsDomesticCode(mintAssetDef.code, internalAssetCode)
    /\ HasVerifyingKey("MINT", inputs, outputs)
    /\ Note("MINT", root, inputs, outputs, MintProof(root, inputs, outputs, mintAssetDef),
            ZeroAddress)
    /\ UNCHANGED balances

freezeNote(root, inputs, outputs) ==
    /\ HasVerifyingKey("FREEZE", inputs, outputs)
    /\ Note("FREEZE", root, inputs, outputs, FreezeProof(root, inputs, outputs), ZeroAddress)
    /\ UNCHANGED balances

\* Mutant: the burned record is inserted too.
allOutputs(outputs) == outputs

\* Every output but the second, the burned one, is inserted.
keptOutputs(outputs) == RemoveAt(outputs, 2)

\* _handleWithdrawal pays the recipient named in the bytes bound to the proof:
\* any address, that of this contract included.
burnNote(root, inputs, outputs, ro, extra, recipient) ==
    /\ checkBurn(extra, outputs, ro)
    /\ HasVerifyingKey("TRANSFER", inputs, outputs)
    /\ Note("BURN", root, inputs, keptOutputs(outputs),
            TransferProof(root, inputs, outputs), lookup(ro.assetDef))
    /\ Transfer(lookup(ro.assetDef), CapeAddress, recipient, ro.amount)

emptyBlock == top.notes = << >> /\ top.numPending = 0

\* Mutant: the deposits go first.
depositsFirst == pendingDeposits \o top.commitments

newCommitments == top.commitments \o pendingDeposits

queueAfterBlock == << >>

\* _computeNumCommitments: the outputs of all the notes in the arrays.
computeNumCommitments == Len(top.commitments) + top.spare

\* AccumulatingArray: an array of fixed length, filled from its start.
Unfilled(items, length) == [i \in 1 .. length - Len(items) |-> ZeroCommitment]

Accumulated(items, length) == items \o Unfilled(items, length)

\* After the loop: the proofs, the deposits, the tree, the height, the event.
submitCapeBlockReturns ==
    LET items == newCommitments
        length == computeNumCommitments + top.numPending
    IN  /\ Running("submitCapeBlock")
        /\ ~emptyBlock
        /\ top.notes # << >> => top.verified
        /\ Len(items) <= length
        /\ IF items # << >>
           THEN InsertLeaves(Accumulated(items, length))
           ELSE UNCHANGED <<tree, rsVars>>
        /\ blockHeight' = blockHeight + 1
        /\ log' = Append(log, Log!BlockEvent(blockHeight + 1, pendingDeposits, top.notes,
                             IF items # << >> THEN Unfilled(items, length) ELSE << >>))
        /\ pendingDeposits' = queueAfterBlock
        /\ status' = "NOT_ENTERED"
        /\ frames' = Tail(frames)
        /\ UNCHANGED <<nullifiers, faucetInitialized, balances, assets>>

-----------------------------------------------------------------------------
(***************************************************************************)
(* A call in progress fails: the next note fails a check, a proof does not *)
(* verify, a token refuses, the array or the tree is full, the gas runs    *)
(* out.  Everything since its start is undone.                             *)
(***************************************************************************)
revert ==
    /\ ~Idle
    /\ nullifiers' = top.saved.nullifiers
    /\ blockHeight' = top.saved.blockHeight
    /\ pendingDeposits' = top.saved.pendingDeposits
    /\ status' = top.saved.status
    /\ tree' = top.saved.tree
    /\ balances' = top.saved.balances
    /\ log' = top.saved.log
    /\ assets' = top.saved.assets
    /\ roots' = top.saved.roots
    /\ rootsMap' = top.saved.rootsMap
    /\ writeHead' = top.saved.writeHead
    /\ added' = top.saved.added
    /\ frames' = Tail(frames)
    /\ UNCHANGED faucetInitialized

-----------------------------------------------------------------------------
InputLists == UNION {[1 .. n -> 1 .. Len(tree)] : n \in 1 .. MaxInputs}

Sponsor ==
    \E s \in Sponsors, e \in Erc20Addresses \cup {ZeroAddress}, a \in AssetDefinitions :
        sponsorCapeAsset(s, e, a)

Deposit ==
    \E s \in Sponsors, ro \in Records, e \in Erc20Addresses : depositErc20(s, ro, e)

SubmitBlock ==
    /\ blockHeight < MaxHeight
    /\ \E s \in Sponsors, spare \in 0 .. MaxSpare : submitCapeBlock(s, spare)

(***************************************************************************)
(* Bound: which notes are enumerated.  A note whose statement is false     *)
(* makes its block fail at batchVerify and leaves nothing behind; of these *)
(* only the ones that spend the newest leaf alone are tried.               *)
(***************************************************************************)
Enumerated(root, inputs, outputs) ==
    \/ inputs = <<Len(tree)>>
    \/ TransferProof(root, inputs, outputs)
    \/ \E a \in AssetDefinitions : MintProof(root, inputs, outputs, a)
    \/ FreezeProof(root, inputs, outputs)

\* The next note of the block.
NextNote ==
    /\ Running("submitCapeBlock")
    /\ top.verified
    /\ \E root \in rootsMap, inputs \in InputLists, outputs \in OutputLists :
        /\ Enumerated(root, inputs, outputs)
        /\ \/ \E validUntil \in {0, MaxHeight}, extra \in ExtraData :
                 transferNote(root, inputs, outputs, validUntil, extra)
           \/ \E a \in AssetDefinitions, c \in InternalCodes :
                 mintNote(root, inputs, outputs, a, c)
           \/ freezeNote(root, inputs, outputs)
           \/ \E ro \in ToSet(outputs), extra \in ExtraData, recipient \in Accounts :
                 burnNote(root, inputs, outputs, ro, extra, recipient)

Next ==
    \/ \E s \in Users : faucetSetupForTestnet(s)
    \/ Sponsor
    \/ Deposit
    \/ depositErc20Returns
    \/ SubmitBlock
    \/ NextNote
    \/ submitCapeBlockReturns
    \/ revert

Spec == Init /\ [][Next]_vars

-----------------------------------------------------------------------------
(* Types.                                                                  *)

CommittedNotes == [type : NoteTypes, spent : Seq(Nat), outputs : Seq(Records)]

Events ==
    [event : {"FaucetInitialized"}, opening : Records]
      \cup [event : {"AssetSponsored"}, erc20 : Erc20Addresses, asset : AssetDefinitions]
      \cup [event : {"Erc20TokensDeposited"}, opening : Records,
            from : Users \cup ReentrantTokens]
      \cup [event : {"BlockCommitted"}, height : Nat, deposits : Seq(Records),
            notes : Seq(CommittedNotes), padding : Seq({ZeroCommitment})]

Statuses == {"NOT_ENTERED", "ENTERED"}

Snapshots ==
    [nullifiers : SUBSET Nat, blockHeight : Nat, pendingDeposits : Seq(Records),
     status : Statuses, tree : Seq(Leaves),
     balances : [HonestTokens -> [Accounts -> Nat]], log : Seq(Events),
     assets : [AssetDefinitions -> Erc20Addresses \cup {ZeroAddress}],
     roots : [Slots -> RootValues \cup {ZeroRoot}],
     rootsMap : SUBSET (RootValues \cup {ZeroRoot}), writeHead : Slots,
     added : Seq(RootValues)]

Frames ==
    [fn : {"depositErc20"}, callee : Erc20Addresses, opening : Records,
     sender : Users \cup ReentrantTokens, saved : Snapshots]
      \cup [fn : {"submitCapeBlock"}, callee : Erc20Addresses \cup {ZeroAddress},
            notes : Seq(CommittedNotes), commitments : Seq(Records),
            verified : BOOLEAN, spare : Nat, numPending : Nat, saved : Snapshots]

TypeOK ==
    /\ RootStoreTypeOK
    /\ AssetsTypeOK
    /\ nullifiers \in SUBSET Nat
    /\ blockHeight \in Nat
    /\ pendingDeposits \in Seq(Records)
    /\ faucetInitialized \in BOOLEAN
    /\ status \in Statuses
    /\ tree \in Seq(Leaves)
    /\ balances \in [HonestTokens -> [Accounts -> Nat]]
    /\ log \in Seq(Events)
    /\ frames \in Seq(Frames)

-----------------------------------------------------------------------------
(* Safety.                                                                 *)

IsForeign(assetDef) == assetDef.code[1] = "FOREIGN_ASSET"

\* What a leaf is worth in `token', when `registry' maps assets to tokens.
Worth(registry, token, r) ==
    IF r # ZeroCommitment /\ registry[r.assetDef] = token THEN r.amount ELSE 0

\* What the records of a list are worth, but those at the positions `spent'.
Value(registry, token, list, spent) ==
    SumTo([i \in DOMAIN list |->
            IF i \in spent THEN 0 ELSE Worth(registry, token, list[i])], Len(list))

(***************************************************************************)
(* Between calls, the contract owns of every honest token at least what    *)
(* the unspent records and the waiting deposits of the assets wrapping it  *)
(* are worth: wrapped records cannot be minted, burned twice, burned and   *)
(* kept, or queued without being paid for (CAPE.sol, depositErc20 and      *)
(* submitCapeBlock).  It may own more: a note whose recipient is the       *)
(* contract itself spends a record and leaves its tokens where they are.   *)
(***************************************************************************)
Solvency ==
    Idle => \A t \in HonestTokens :
        balances[t][CapeAddress] >= Value(assets, t, tree, nullifiers)
                                      + Value(assets, t, pendingDeposits, {})

(***************************************************************************)
(* A record of a foreign asset that is worth anything exists, in the tree  *)
(* or in the queue, only when its definition is registered for the very    *)
(* token that its code names: no mint, transfer, freeze or re-sponsoring   *)
(* makes an unbacked one (AssetRegistry.sol _checkForeignAssetCode,        *)
(* _checkDomesticAssetCode).                                               *)
(***************************************************************************)
WrappedRecordsBacked ==
    \A r \in (ToSet(tree) \ {ZeroCommitment}) \cup ToSet(pendingDeposits) :
        IsForeign(r.assetDef) /\ r.amount > 0 => lookup(r.assetDef) = r.assetDef.code[2]

(***************************************************************************)
(* No record is spent twice by the notes of the blocks committed so far,   *)
(* however the blocks, the notes and the failed calls in between are       *)
(* arranged (CAPE.sol _publish).                                           *)
(***************************************************************************)
NoDoubleSpend ==
    \A k, l \in DOMAIN log :
        Log!IsBlock(log[k]) /\ Log!IsBlock(log[l]) =>
        \A n \in DOMAIN log[k].notes, m \in DOMAIN log[l].notes :
            \A i \in DOMAIN log[k].notes[n].spent, j \in DOMAIN log[l].notes[m].spent :
                log[k].notes[n].spent[i] = log[l].notes[m].spent[j]
                  => <<k, n, i>> = <<l, m, j>>

(***************************************************************************)
(* The contract implements the log that its clients rely on (CapeLog): a   *)
(* completed transaction only appends events; each BlockCommitted event    *)
(* lists exactly the deposits announced since the block before it, so an   *)
(* indexer may pair them (eqs eth_polling.rs), which a block that slipped  *)
(* in between a deposit's push and its event would break; heights count    *)
(* the blocks; nothing is spent twice or before it exists.                 *)
(***************************************************************************)
ImplementsCapeLog == Log!Spec

(***************************************************************************)
(* Replaying the events gives the tree and the queue: the faucet's record, *)
(* then for each block the outputs of its notes, its deposits and, for     *)
(* notes that noteTypes does not name, zeros.  Clients build their own     *)
(* tree this way (eqs eth_polling.rs, wallet).                             *)
(***************************************************************************)
EventsReplayState ==
    Idle => /\ tree = Log!Leaves(log)
            /\ pendingDeposits = Log!Announced(log)
            /\ nullifiers = Log!Spent(log)
=============================================================================
